---- MODULE Spec2Model ----
(***************************************************************************)
(* Upload / soft-delete / restore / purge lifecycle of tenant tables.      *)
(*                                                                         *)
(* Every request handler is a sequence of awaited calls against the shared *)
(* store; each call is one action, so that requests interleave at the      *)
(* store exactly where the handlers await.                                 *)
(*                                                                         *)
(*   upload      src/unnamed/part_004  POST   (lines 404-570)              *)
(*   softDelete  src/unnamed/part_006  DELETE (lines 9-128)                *)
(*   restore     src/app/api/admin/trash/route.ts POST   (48-143)          *)
(*   purge       src/app/api/admin/trash/route.ts DELETE (146-183)         *)
(*   trash list  src/app/api/admin/trash/route.ts GET    (10-45)           *)
(*   table page  src/app/api/admin/tables/[table]/route.ts GET (20-92)     *)
(*                                                                         *)
(* The pure functions the handlers call work on strings as sequences of    *)
(* characters: parseFileName (src/unnamed/part_003), csvToJsonArray        *)
(* (src/stop-local.bat), generateSimpleTableName (src/unnamed/part_004).   *)
(* Time is counted in seconds.                                             *)
(***************************************************************************)
EXTENDS Integers, Sequences, FiniteSets, TLC

VARIABLES
    schemas,         \* namespaces that exist in the store
    tables,          \* live tables: <<schema, table>> -> sequence of rows
    upload_logs,     \* ledger: set of UploadRecords (rows of public.upload_logs)
    deleted_tables,  \* trash: set of TrashEntries (rows of deleted_tables)
    nextLogId,       \* BIGSERIAL of upload_logs
    nextTrashId,     \* serial id of deleted_tables
    pc,              \* per request slot: the await the handler is suspended at
    loc,             \* per request slot: the handler's local variables
    resp,            \* per request slot: the last response returned
    faults,          \* store calls that have returned an error for an outside reason
    requests,        \* requests accepted so far
    now,             \* the clock: seconds since the midnight the system started at
    ticks            \* times the clock has been advanced

vars == <<schemas, tables, upload_logs, deleted_tables, nextLogId, nextTrashId,
          pc, loc, resp, faults, requests, now, ticks>>

store == <<schemas, tables, upload_logs, deleted_tables, nextLogId, nextTrashId>>

----------------------------------------------------------------------------
(* Bounds of the model *)

MaxRequests == 3     \* requests accepted in one behaviour
MaxBatchUploads == 2 \* uploads accepted in one behaviour of the batching runs
MaxFaults == 1       \* store calls that fail for a reason outside the model
MaxTicks == 2        \* times the clock is advanced in one behaviour
MaxNameLen == 3      \* characters of a table identifier handed to the page read
MaxPageRows == 4     \* rows of the table the page read looks at
MaxCsvLen == 5        \* characters of a CSV text handed to the decoder
MaxCompanyLen == 3    \* characters of a tenant name handed to the name resolver
MaxValueLen == 2      \* characters of a data value written into a statement

(* Program constants *)

BATCH_SIZE == 100    \* rows per insert statement
DAY == 86400         \* seconds of a day (the code counts 1000 * 60 * 60 * 24 ms)
RETENTION_DAYS == 30 \* days a TrashEntry is kept before it expires

Procs == {"p1", "p2"}              \* concurrent request slots

NULL == "null"

(* A nullable value is the empty set (null) or the set of its one value. *)
None == {}
Some(x) == {x}
The(o) == CHOOSE x \in o : TRUE

----------------------------------------------------------------------------
(* Identifiers.  A table identifier is the sequence of its dot-separated   *)
(* parts: <<"a","t1">> is the string "a.t1", <<"t1">> is "t1".  A live     *)
(* table is keyed by <<schema, table>> where table is the sequence of      *)
(* parts inside the double quotes of the statement.                        *)

fullTableName(schemaName, simpleTableName) == <<schemaName, simpleTableName>>

ParseTableName(tableName) ==
    IF Len(tableName) = 2
    THEN [schema |-> tableName[1], table |-> <<tableName[2]>>]
    ELSE [schema |-> "public", table |-> tableName]

(* Rows of the CSV uploaded by request slot p with n data rows. *)
FileRows(p, n) == [i \in 1..n |-> <<p, i>>]

Min(a, b) == IF a < b THEN a ELSE b

----------------------------------------------------------------------------
(* Text.  A string the code looks into character by character is the       *)
(* sequence of its characters.                                             *)

Digits == <<"0", "1", "2", "3", "4", "5", "6", "7", "8", "9">>

IsDigit(c) == \E i \in 1..Len(Digits) : Digits[i] = c

(* parseInt of a string of digits *)
RECURSIVE parseInt(_)
parseInt(cs) ==
    IF cs = <<>> THEN 0
    ELSE 10 * parseInt(SubSeq(cs, 1, Len(cs) - 1))
         + (CHOOSE i \in 1..Len(Digits) : Digits[i] = cs[Len(cs)]) - 1

(* String(n).padStart(2, '0') for n in 0..99 *)
padStart2(n) == Digits[(n \div 10) + 1] \o Digits[(n % 10) + 1]

RECURSIVE Join(_)
Join(cs) == IF cs = <<>> THEN "" ELSE Head(cs) \o Join(Tail(cs))

UpperCase ==
    {"A", "B", "C", "D", "E", "F", "G", "H", "I", "J", "K", "L", "M", "N",
     "O", "P", "Q", "R", "S", "T", "U", "V", "W", "X", "Y", "Z"}

LowerCase ==
    {"a", "b", "c", "d", "e", "f", "g", "h", "i", "j", "k", "l", "m", "n",
     "o", "p", "q", "r", "s", "t", "u", "v", "w", "x", "y", "z"}

(* The lower-case letter of each upper-case letter *)
ToLower ==
    "A" :> "a" @@ "B" :> "b" @@ "C" :> "c" @@ "D" :> "d" @@ "E" :> "e" @@ "F" :> "f" @@
    "G" :> "g" @@ "H" :> "h" @@ "I" :> "i" @@ "J" :> "j" @@ "K" :> "k" @@ "L" :> "l" @@
    "M" :> "m" @@ "N" :> "n" @@ "O" :> "o" @@ "P" :> "p" @@ "Q" :> "q" @@ "R" :> "r" @@
    "S" :> "s" @@ "T" :> "t" @@ "U" :> "u" @@ "V" :> "v" @@ "W" :> "w" @@ "X" :> "x" @@
    "Y" :> "y" @@ "Z" :> "z"

IsUpper(c) == c \in UpperCase
IsLower(c) == c \in LowerCase

toLowerCase(cs) ==
    [i \in 1..Len(cs) |-> IF IsUpper(cs[i]) THEN ToLower[cs[i]] ELSE cs[i]]

endsWith(cs, suffix) ==
    /\ Len(cs) >= Len(suffix)
    /\ SubSeq(cs, Len(cs) - Len(suffix) + 1, Len(cs)) = suffix

(* cs.slice(0, -k) *)
sliceEnd(cs, k) == IF Len(cs) > k THEN SubSeq(cs, 1, Len(cs) - k) ELSE <<>>

IsSpace(c) == c \in {" ", "\t", "\n", "\r"}

RECURSIVE trimStart(_)
trimStart(cs) ==
    IF cs # <<>> /\ IsSpace(Head(cs)) THEN trimStart(Tail(cs)) ELSE cs

RECURSIVE trimEnd(_)
trimEnd(cs) ==
    IF cs # <<>> /\ IsSpace(cs[Len(cs)]) THEN trimEnd(sliceEnd(cs, 1)) ELSE cs

trim(cs) == trimEnd(trimStart(cs))

----------------------------------------------------------------------------
(* parseFileName of src/unnamed/part_003: "<company>YYMMDD.csv" *)

InvalidName(errorMessage) ==
    [isValid |-> FALSE, companyName |-> <<>>, fileDate |-> <<>>,
     errorMessage |-> errorMessage]

(* parseFileName with the lower limit of the month left out of line 57. *)
parseFileNameNoMonthFloor(fileName) ==
    IF ~endsWith(toLowerCase(fileName), <<".", "c", "s", "v">>)
    THEN InvalidName("extension")
    ELSE
    LET nameWithoutExt == sliceEnd(fileName, 4)
        len == Len(nameWithoutExt)
        dateMatch == /\ len >= 6
                     /\ \A i \in (len - 5)..len : IsDigit(nameWithoutExt[i])
    IN IF ~dateMatch THEN InvalidName("date")
       ELSE
       LET fileDate == SubSeq(nameWithoutExt, len - 5, len)
           month == parseInt(SubSeq(fileDate, 3, 4))
           day == parseInt(SubSeq(fileDate, 5, 6))
           companyName == trim(sliceEnd(nameWithoutExt, 6))
       IN IF month > 12 THEN InvalidName("month")
          ELSE IF day < 1 \/ day > 31 THEN InvalidName("day")
          ELSE IF companyName = <<>> THEN InvalidName("company")
          ELSE [isValid |-> TRUE, companyName |-> companyName,
                fileDate |-> fileDate, errorMessage |-> "none"]

(* parseFileName with the trim of line 71 left out. *)
parseFileNameNoTrim(fileName) ==
    IF ~endsWith(toLowerCase(fileName), <<".", "c", "s", "v">>)
    THEN InvalidName("extension")
    ELSE
    LET nameWithoutExt == sliceEnd(fileName, 4)
        len == Len(nameWithoutExt)
        dateMatch == /\ len >= 6
                     /\ \A i \in (len - 5)..len : IsDigit(nameWithoutExt[i])
    IN IF ~dateMatch THEN InvalidName("date")
       ELSE
       LET fileDate == SubSeq(nameWithoutExt, len - 5, len)
           month == parseInt(SubSeq(fileDate, 3, 4))
           day == parseInt(SubSeq(fileDate, 5, 6))
           companyName == sliceEnd(nameWithoutExt, 6)
       IN IF month < 1 \/ month > 12 THEN InvalidName("month")
          ELSE IF day < 1 \/ day > 31 THEN InvalidName("day")
          ELSE IF companyName = <<>> THEN InvalidName("company")
          ELSE [isValid |-> TRUE, companyName |-> companyName,
                fileDate |-> fileDate, errorMessage |-> "none"]

parseFileName(fileName) ==
    IF ~endsWith(toLowerCase(fileName), <<".", "c", "s", "v">>)
    THEN InvalidName("extension")
    ELSE
    LET nameWithoutExt == sliceEnd(fileName, 4)
        len == Len(nameWithoutExt)
        dateMatch == /\ len >= 6
                     /\ \A i \in (len - 5)..len : IsDigit(nameWithoutExt[i])
    IN IF ~dateMatch THEN InvalidName("date")
       ELSE
       LET fileDate == SubSeq(nameWithoutExt, len - 5, len)
           month == parseInt(SubSeq(fileDate, 3, 4))
           day == parseInt(SubSeq(fileDate, 5, 6))
           companyName == trim(sliceEnd(nameWithoutExt, 6))
       IN IF month < 1 \/ month > 12 THEN InvalidName("month")
          ELSE IF day < 1 \/ day > 31 THEN InvalidName("day")
          ELSE IF companyName = <<>> THEN InvalidName("company")
          ELSE [isValid |-> TRUE, companyName |-> companyName,
                fileDate |-> fileDate, errorMessage |-> "none"]

(* generateSimpleTableName of src/unnamed/part_004: the file date and the  *)
(* local time of day of the clock, "sales_<YYMMDD>_<HHMMSS>".              *)
getHours(t) == (t \div 3600) % 24
getMinutes(t) == (t \div 60) % 60
getSeconds(t) == t % 60

generateSimpleTableName(fileDate, t) ==
    LET timeStamp == padStart2(getHours(t)) \o padStart2(getMinutes(t))
                     \o padStart2(getSeconds(t))
    IN "sales_" \o Join(fileDate) \o "_" \o timeStamp

----------------------------------------------------------------------------
(* Name resolver: generateSchemaName and romanizeKorean of                 *)
(* src/unnamed/part_004.  A character outside ASCII is written as the      *)
(* token of its code unit, "U+BAA8" for the syllable a tenant name may     *)
(* hold; charCodeAt gives the code unit of each character of the names.    *)
charCodeAt(c) ==
    CASE c = "\t" -> 9 [] c = " " -> 32 [] c = "'" -> 39 [] c = "." -> 46
      [] c = "1" -> 49 [] c = ";" -> 59 [] c = "Z" -> 90 [] c = "a" -> 97
      [] c = "U+00E9" -> 233
      [] c = "U+AC00" -> 44032 [] c = "U+BAA8" -> 47784
      [] c = "U+C544" -> 50500 [] c = "U+D7A3" -> 55203
      [] c = "U+D7A4" -> 55204

HANGUL_FIRST == 44032          \* 0xAC00
HANGUL_LAST == 55203           \* 0xD7A3

cho ==
    <<<<"g">>, <<"g", "g">>, <<"n">>, <<"d">>, <<"d", "d">>, <<"r">>,
      <<"m">>, <<"b">>, <<"b", "b">>, <<"s">>, <<"s", "s">>, <<>>, <<"j">>,
      <<"j", "j">>, <<"c", "h">>, <<"k">>, <<"t">>, <<"p">>, <<"h">>>>

jung ==
    <<<<"a">>, <<"a", "e">>, <<"y", "a">>, <<"y", "a", "e">>, <<"e", "o">>,
      <<"e">>, <<"y", "e", "o">>, <<"y", "e">>, <<"o">>, <<"w", "a">>,
      <<"w", "a", "e">>, <<"o", "e">>, <<"y", "o">>, <<"u">>, <<"w", "o">>,
      <<"w", "e">>, <<"w", "i">>, <<"y", "u">>, <<"e", "u">>, <<"u", "i">>,
      <<"i">>>>

jong ==
    <<<<>>, <<"g">>, <<"g", "g">>, <<"g", "s">>, <<"n">>, <<"n", "j">>,
      <<"n", "h">>, <<"d">>, <<"l">>, <<"l", "g">>, <<"l", "m">>,
      <<"l", "b">>, <<"l", "s">>, <<"l", "t">>, <<"l", "p">>, <<"l", "h">>,
      <<"m">>, <<"b">>, <<"b", "s">>, <<"s">>, <<"s", "s">>, <<"n", "g">>,
      <<"j">>, <<"c", "h">>, <<"k">>, <<"t">>, <<"p">>, <<"h">>>>

(* Lines 621-637: what one character adds to the result *)
romanizeChar(char) ==
    LET code == charCodeAt(char)
        offset == code - HANGUL_FIRST
        choIdx == offset \div 588
        jungIdx == (offset % 588) \div 28
        jongIdx == offset % 28
    IN IF code >= HANGUL_FIRST /\ code <= HANGUL_LAST
       THEN cho[choIdx + 1] \o jung[jungIdx + 1] \o jong[jongIdx + 1]
       ELSE IF IsLower(char) \/ IsUpper(char) \/ IsDigit(char) THEN <<char>>
       ELSE IF IsSpace(char) THEN <<" ">>
       ELSE <<>>

RECURSIVE romanizeKorean(_)
romanizeKorean(korean) ==
    IF korean = <<>> THEN <<>>
    ELSE romanizeChar(Head(korean)) \o romanizeKorean(Tail(korean))

IsAlnum(c) == IsLower(c) \/ IsDigit(c)

(* Lines 583-586: lowercased, whitespace and every other character out *)
StrippedName(companyName) ==
    SelectSeq(SelectSeq(toLowerCase(romanizeKorean(companyName)),
                        LAMBDA c : ~IsSpace(c)),
              IsAlnum)

(* Line 587: replace(/^[0-9]/, 'c') *)
ReplaceLeadingDigit(s) ==
    IF s # <<>> /\ IsDigit(s[1]) THEN <<"c">> \o Tail(s) ELSE s

DEFAULT_SCHEMA == <<"c", "o", "m", "p", "a", "n", "y">>

(* generateSchemaName with the test of the first character left out *)
generateSchemaNameAnyStart(companyName) ==
    LET s == StrippedName(companyName)
    IN IF s # <<>> THEN s ELSE DEFAULT_SCHEMA

generateSchemaName(companyName) ==
    LET s == ReplaceLeadingDigit(StrippedName(companyName))
    IN IF s # <<>> THEN s ELSE DEFAULT_SCHEMA

(* Tenant names: every string of up to MaxCompanyLen of these characters. *)
CompanyChars ==
    {"a", "Z", "1", " ", "'", ";", ".", "U+BAA8", "U+C544", "U+D7A3", "U+00E9"}

CompanyNames == UNION {[1..k -> CompanyChars] : k \in 0..MaxCompanyLen}

(* File names the requests carry: a tenant prefix, a date, an extension. *)
NamePrefixes == {<<>>, <<" ">>, <<"a">>, <<"a", "1">>}
NameDates ==
    {<<"2", "5", "1", "2", "0", "6">>, <<"2", "5", "1", "3", "0", "6">>,
     <<"2", "5", "0", "0", "0", "6">>, <<"2", "5", "1", "2", "0", "0">>,
     <<"2", "5", "1", "2", "3", "2">>, <<"5", "1", "2", "0", "6">>,
     <<"2", "5", "1", "2", "x", "6">>, <<"2", "5", "1", "2", "0", "6", "_">>}
NameExtensions == {<<".", "c", "s", "v">>, <<".", "C", "S", "V">>,
                   <<".", "t", "x", "t">>, <<"c", "s", "v">>, <<>>}

FileNames == {pre \o date \o ext :
                pre \in NamePrefixes, date \in NameDates, ext \in NameExtensions}

GoodName == <<"a", "2", "5", "1", "2", "0", "6", ".", "c", "s", "v">>

(* An uploaded file: its name and the number of data rows of its CSV. *)
Files(names, sizes) == [name : names, rows : sizes]

SmallFiles == Files({GoodName}, {0, 2})              \* lifecycle runs
BatchFiles == Files({GoodName}, {0, 1, 100, 101, 250})  \* batching runs
NamedFiles == Files(FileNames, {0, 1})               \* validation runs

(* Table names of the uploads of the lifecycle runs, whose clock stands. *)
SimpleTableNames ==
    {generateSimpleTableName(parseFileName(f.name).fileDate, 0) : f \in SmallFiles}

(* Namespaces of the uploads of the lifecycle runs. *)
SchemaNames ==
    {Join(generateSchemaName(parseFileName(f.name).companyName)) : f \in SmallFiles}

TableNames == {fullTableName(s, t) : s \in SchemaNames, t \in SimpleTableNames}

----------------------------------------------------------------------------
(* The store: effect of each statement the handlers send through exec_sql  *)
(* and of each typed call on upload_logs / deleted_tables.                 *)

Without(T, k) == [x \in (DOMAIN T) \ {k} |-> T[x]]

CreateSchemaIfNotExists(S, s) == S \cup {s}

DropTableIfExists(T, k) == Without(T, k)

CreateTableFails(S, T, k) == k[1] \notin S \/ k \in DOMAIN T

CreateTable(T, k) == (k :> <<>>) @@ T

CreateTableIfNotExists(T, k) == IF k \in DOMAIN T THEN T ELSE CreateTable(T, k)

InsertFails(T, k) == k \notin DOMAIN T

InsertInto(T, k, rows) == [T EXCEPT ![k] = @ \o rows]

DropSchemaCascade(T, s) ==
    [x \in {k \in DOMAIN T : k[1] # s} |-> T[x]]

(* A call may also return an error for a reason the model does not hold    *)
(* (network, permission, timeout); such a call has no effect on the store. *)
Outcomes == IF faults < MaxFaults THEN {TRUE, FALSE} ELSE {TRUE}

Charge(ok) == faults' = IF ok THEN faults ELSE faults + 1

----------------------------------------------------------------------------
(* Request slots *)

NoLoc ==
    [fileName |-> <<>>, companyName |-> <<>>, fileDate |-> <<>>, csvText |-> <<>>,
     schema |-> NULL, table |-> <<>>, tableName |-> <<>>, rows |-> <<>>,
     i |-> 0, insertedCount |-> 0, logData |-> None, originalData |-> None,
     trashItem |-> None, id |-> 0,
     ddlError |-> FALSE, trashOk |-> FALSE, trashId |-> 0, droppedRows |-> None,
     callFailed |-> FALSE, tablesCreated |-> 0, logsAdded |-> 0, trashRemoved |-> {}]

NoResp == [op |-> "none", status |-> 0]

Init ==
    /\ schemas = {"public"}
    /\ tables = <<>>
    /\ upload_logs = {}
    /\ deleted_tables = {}
    /\ nextLogId = 1
    /\ nextTrashId = 1
    /\ pc = [p \in Procs |-> "idle"]
    /\ loc = [p \in Procs |-> NoLoc]
    /\ resp = [p \in Procs |-> NoResp]
    /\ faults = 0
    /\ requests = 0
    /\ now = 0
    /\ ticks = 0

Accept(p) ==
    /\ pc[p] = "idle"
    /\ requests < MaxRequests
    /\ requests' = requests + 1

Return(p, r) ==
    /\ pc' = [pc EXCEPT ![p] = "idle"]
    /\ loc' = [loc EXCEPT ![p] = NoLoc]
    /\ resp' = [resp EXCEPT ![p] = r]
    /\ UNCHANGED <<now, ticks>>

Goto(p, label, l) ==
    /\ pc' = [pc EXCEPT ![p] = label]
    /\ loc' = [loc EXCEPT ![p] = l]
    /\ UNCHANGED <<resp, now, ticks>>

(* Time passes between two steps of the handlers. *)
Tick(steps) ==
    /\ ticks < MaxTicks
    /\ \E d \in steps : now' = now + d
    /\ ticks' = ticks + 1
    /\ UNCHANGED <<store, pc, loc, resp, faults, requests>>

----------------------------------------------------------------------------
(* upload: POST of src/unnamed/part_004 *)

(* Lines 404-454: file name parsed, identifiers generated, CSV decoded;    *)
(* an invalid file name and an empty CSV are answered 400 before any       *)
(* store call.                                                             *)
UploadBegin(p, files) ==
    /\ Accept(p)
    /\ \E file \in files :
         LET parseResult == parseFileName(file.name)
             schemaName == Join(generateSchemaName(parseResult.companyName))
             simpleTableName == generateSimpleTableName(parseResult.fileDate, now)
         IN IF ~parseResult.isValid
            THEN Return(p, [op |-> "upload", status |-> 400,
                            error |-> parseResult.errorMessage, file |-> file])
            ELSE IF file.rows = 0
            THEN Return(p, [op |-> "upload", status |-> 400,
                            error |-> "empty", file |-> file])
            ELSE Goto(p, "u_schema",
                      [NoLoc EXCEPT !.fileName = file.name,
                                    !.schema = schemaName,
                                    !.table = <<simpleTableName>>,
                                    !.tableName = fullTableName(schemaName, simpleTableName),
                                    !.rows = FileRows(p, file.rows)])
    /\ UNCHANGED <<store, faults>>

(* Lines 456-458: CREATE SCHEMA IF NOT EXISTS; the result is not looked at. *)
UploadCreateSchema(p) ==
    /\ pc[p] = "u_schema"
    /\ \E ok \in Outcomes :
         /\ Charge(ok)
         /\ schemas' = IF ok THEN CreateSchemaIfNotExists(schemas, loc[p].schema)
                       ELSE schemas
         /\ Goto(p, "u_drop", [loc[p] EXCEPT !.ddlError = ~ok])
    /\ UNCHANGED <<tables, upload_logs, deleted_tables, nextLogId, nextTrashId, requests>>

(* Lines 460-462: DROP TABLE IF EXISTS; the result is not looked at. *)
UploadDropTable(p) ==
    /\ pc[p] = "u_drop"
    /\ \E ok \in Outcomes :
         /\ Charge(ok)
         /\ tables' = IF ok THEN DropTableIfExists(tables, <<loc[p].schema, loc[p].table>>)
                      ELSE tables
         /\ Goto(p, "u_create", [loc[p] EXCEPT !.ddlError = @ \/ ~ok])
    /\ UNCHANGED <<schemas, upload_logs, deleted_tables, nextLogId, nextTrashId, requests>>

(* Lines 464-490: CREATE TABLE; an error is answered 500. *)
UploadCreateTable(p) ==
    /\ pc[p] = "u_create"
    /\ LET k == <<loc[p].schema, loc[p].table>> IN
       \E ok \in Outcomes :
         /\ Charge(ok)
         /\ IF ok /\ ~CreateTableFails(schemas, tables, k)
            THEN /\ tables' = CreateTable(tables, k)
                 /\ Goto(p, "u_rls", loc[p])
            ELSE /\ tables' = tables
                 /\ Return(p, [op |-> "upload", status |-> 500, step |-> "create",
                               ddlError |-> TRUE,
                               tableName |-> loc[p].tableName, insertedCount |-> 0])
    /\ UNCHANGED <<schemas, upload_logs, deleted_tables, nextLogId, nextTrashId, requests>>

(* Lines 492-505: row level security and policies; the result is not       *)
(* looked at and the statement changes neither rows nor tables.            *)
UploadPolicies(p) ==
    /\ pc[p] = "u_rls"
    /\ \E ok \in Outcomes : Charge(ok)
    /\ Goto(p, "u_insert", loc[p])
    /\ UNCHANGED <<store, requests>>

(* The batch loop with the error test of lines 521-527 left out: the loop  *)
(* goes on to the next batch after a failed one.                           *)
UploadInsertBatchNoAbort(p) ==
    /\ pc[p] = "u_insert"
    /\ LET k == <<loc[p].schema, loc[p].table>>
           i == loc[p].i
           rows == loc[p].rows
           batch == SubSeq(rows, i + 1, Min(i + BATCH_SIZE, Len(rows)))
       IN \E ok \in Outcomes :
            /\ Charge(ok)
            /\ tables' = IF ok /\ ~InsertFails(tables, k)
                         THEN InsertInto(tables, k, batch) ELSE tables
            /\ Goto(p, IF i + BATCH_SIZE < Len(rows) THEN "u_insert" ELSE "u_log",
                    [loc[p] EXCEPT !.i = i + BATCH_SIZE,
                                   !.insertedCount = @ + Len(batch)])
    /\ UNCHANGED <<schemas, upload_logs, deleted_tables, nextLogId, nextTrashId, requests>>

(* The batch loop writing an UploadRecord also for the upload it aborts:   *)
(* the failed batch is answered 500 and the rows inserted so far are       *)
(* entered in the ledger.                                                  *)
UploadInsertBatchLogsFailure(p) ==
    /\ pc[p] = "u_insert"
    /\ LET k == <<loc[p].schema, loc[p].table>>
           i == loc[p].i
           rows == loc[p].rows
           batch == SubSeq(rows, i + 1, Min(i + BATCH_SIZE, Len(rows)))
       IN \E ok \in Outcomes :
            /\ Charge(ok)
            /\ IF ok /\ ~InsertFails(tables, k)
               THEN /\ tables' = InsertInto(tables, k, batch)
                    /\ UNCHANGED <<upload_logs, nextLogId>>
                    /\ Goto(p, IF i + BATCH_SIZE < Len(rows) THEN "u_insert" ELSE "u_log",
                            [loc[p] EXCEPT !.i = i + BATCH_SIZE,
                                           !.insertedCount = @ + Len(batch)])
               ELSE /\ tables' = tables
                    /\ upload_logs' = upload_logs \cup
                          {[id |-> nextLogId, table_name |-> loc[p].tableName,
                            row_count |-> loc[p].insertedCount]}
                    /\ nextLogId' = nextLogId + 1
                    /\ Return(p, [op |-> "upload", status |-> 500, step |-> "insert",
                                  ddlError |-> loc[p].ddlError,
                                  tableName |-> loc[p].tableName,
                                  insertedCount |-> loc[p].insertedCount])
    /\ UNCHANGED <<schemas, deleted_tables, nextTrashId, requests>>

(* The batch loop slicing with the batch size as the end index:            *)
(* rows.slice(i, BATCH_SIZE).                                              *)
UploadInsertBatchBadSlice(p) ==
    /\ pc[p] = "u_insert"
    /\ LET k == <<loc[p].schema, loc[p].table>>
           i == loc[p].i
           rows == loc[p].rows
           batch == SubSeq(rows, i + 1, Min(BATCH_SIZE, Len(rows)))
       IN \E ok \in Outcomes :
            /\ Charge(ok)
            /\ IF ok /\ ~InsertFails(tables, k)
               THEN /\ tables' = InsertInto(tables, k, batch)
                    /\ Goto(p, IF i + BATCH_SIZE < Len(rows) THEN "u_insert" ELSE "u_log",
                            [loc[p] EXCEPT !.i = i + BATCH_SIZE,
                                           !.insertedCount = @ + Len(batch)])
               ELSE /\ tables' = tables
                    /\ Return(p, [op |-> "upload", status |-> 500, step |-> "insert",
                                  ddlError |-> loc[p].ddlError,
                                  tableName |-> loc[p].tableName,
                                  insertedCount |-> loc[p].insertedCount])
    /\ UNCHANGED <<schemas, upload_logs, deleted_tables, nextLogId, nextTrashId, requests>>

(* Lines 511-530: one insert statement per batch of BATCH_SIZE rows, in    *)
(* order; the first failing batch is answered 500.                         *)
UploadInsertBatch(p) ==
    /\ pc[p] = "u_insert"
    /\ LET k == <<loc[p].schema, loc[p].table>>
           i == loc[p].i
           rows == loc[p].rows
           batch == SubSeq(rows, i + 1, Min(i + BATCH_SIZE, Len(rows)))
       IN \E ok \in Outcomes :
            /\ Charge(ok)
            /\ IF ok /\ ~InsertFails(tables, k)
               THEN /\ tables' = InsertInto(tables, k, batch)
                    /\ Goto(p, IF i + BATCH_SIZE < Len(rows) THEN "u_insert" ELSE "u_log",
                            [loc[p] EXCEPT !.i = i + BATCH_SIZE,
                                           !.insertedCount = @ + Len(batch)])
               ELSE /\ tables' = tables
                    /\ Return(p, [op |-> "upload", status |-> 500, step |-> "insert",
                               ddlError |-> loc[p].ddlError,
                                  tableName |-> loc[p].tableName,
                                  insertedCount |-> loc[p].insertedCount])
    /\ UNCHANGED <<schemas, upload_logs, deleted_tables, nextLogId, nextTrashId, requests>>

(* The ledger write treated as fatal: a failed write is answered 500.       *)
UploadLogFatal(p) ==
    /\ pc[p] = "u_log"
    /\ \E ok \in Outcomes :
         /\ Charge(ok)
         /\ IF ok
            THEN /\ upload_logs' = upload_logs \cup
                       {[id |-> nextLogId, table_name |-> loc[p].tableName,
                         row_count |-> Len(loc[p].rows)]}
                 /\ nextLogId' = nextLogId + 1
                 /\ Return(p, [op |-> "upload", status |-> 200, step |-> "done",
                               ddlError |-> loc[p].ddlError,
                               tableName |-> loc[p].tableName,
                               rowCount |-> Len(loc[p].rows), logError |-> FALSE])
            ELSE /\ UNCHANGED <<upload_logs, nextLogId>>
                 /\ Return(p, [op |-> "upload", status |-> 500, step |-> "log",
                               ddlError |-> loc[p].ddlError,
                               tableName |-> loc[p].tableName,
                               insertedCount |-> loc[p].insertedCount])
    /\ UNCHANGED <<schemas, tables, deleted_tables, nextTrashId, requests>>

(* Lines 532-558: the UploadRecord is written; a failure is only warned    *)
(* about and the upload is answered as a success.                          *)
UploadLog(p) ==
    /\ pc[p] = "u_log"
    /\ \E ok \in Outcomes :
         /\ Charge(ok)
         /\ IF ok
            THEN /\ upload_logs' = upload_logs \cup
                       {[id |-> nextLogId, table_name |-> loc[p].tableName,
                         row_count |-> Len(loc[p].rows)]}
                 /\ nextLogId' = nextLogId + 1
            ELSE UNCHANGED <<upload_logs, nextLogId>>
         /\ Return(p, [op |-> "upload", status |-> 200, step |-> "done",
                               ddlError |-> loc[p].ddlError,
                       tableName |-> loc[p].tableName,
                       rowCount |-> Len(loc[p].rows), logError |-> ~ok])
    /\ UNCHANGED <<schemas, tables, deleted_tables, nextTrashId, requests>>

----------------------------------------------------------------------------
(* softDelete: DELETE of src/unnamed/part_006 *)

DeleteNames == TableNames \cup {<<t>> : t \in SimpleTableNames}

(* Lines 9-33: the table name is validated and split at its dot. *)
DeleteBegin(p) ==
    /\ Accept(p)
    /\ \E tableName \in DeleteNames :
         Goto(p, "d_log",
              [NoLoc EXCEPT !.tableName = tableName,
                            !.schema = ParseTableName(tableName).schema,
                            !.table = ParseTableName(tableName).table])
    /\ UNCHANGED <<store, faults>>

(* .single(): an error unless exactly one row matches. *)
Single(rows) == IF Cardinality(rows) = 1 THEN rows ELSE None

(* Lines 35-44: the UploadRecord of the table is read; an error is only logged. *)
DeleteFetchLog(p) ==
    /\ pc[p] = "d_log"
    /\ \E ok \in Outcomes :
         /\ Charge(ok)
         /\ Goto(p, "d_read",
                 [loc[p] EXCEPT !.logData =
                     IF ok
                     THEN Single({r \in upload_logs : r.table_name = loc[p].tableName})
                     ELSE None])
    /\ UNCHANGED <<store, requests>>

(* What exec_sql hands back for SELECT json_agg(t): nothing when the        *)
(* function returns VOID (scripts/supabase-setup.sql), one row holding the  *)
(* aggregate when it returns the query result; json_agg of no row is NULL.  *)
ExecSqlResults(T, k) == {None, IF T[k] = <<>> THEN None ELSE Some(T[k])}

(* Lines 46-54: the snapshot read; on an error, or when nothing comes back, *)
(* originalData stays null and the handler goes on.                         *)
DeleteReadTable(p) ==
    /\ pc[p] = "d_read"
    /\ LET k == <<loc[p].schema, loc[p].table>> IN
       \E ok \in Outcomes :
         /\ Charge(ok)
         /\ IF ok /\ k \in DOMAIN tables
            THEN \E data \in ExecSqlResults(tables, k) :
                    Goto(p, "d_trash", [loc[p] EXCEPT !.originalData = data])
            ELSE Goto(p, "d_trash", [loc[p] EXCEPT !.originalData = None])
    /\ UNCHANGED <<store, requests>>

TrashRow(id, l) ==
    [id |-> id,
     table_name |-> l.tableName,
     row_count |-> IF l.logData = None THEN 0 ELSE The(l.logData).row_count,
     original_data |-> l.originalData]

(* Columns the insert of lines 59-66 leaves to the table deleted_tables:   *)
(* the deletion time is the time of the insert, with no retention added    *)
(* to the expiry.                                                          *)
TrashDefaultsNoRetention(row, t) ==
    row @@ [deleted_at |-> t, expires_at |-> t]

(* Columns the insert of lines 59-66 leaves to the table deleted_tables:   *)
(* the deletion time is the time of the insert and the expiry is           *)
(* RETENTION_DAYS later.                                                   *)
TrashDefaults(row, t) ==
    row @@ [deleted_at |-> t, expires_at |-> t + RETENTION_DAYS * DAY]

(* The trash write with the error test of lines 68-74 left out: the        *)
(* handler goes on to the drop whatever the write returned.                *)
DeleteTrashInsertUnchecked(p) ==
    /\ pc[p] = "d_trash"
    /\ \E ok \in Outcomes :
         /\ Charge(ok)
         /\ IF ok
            THEN /\ deleted_tables' = deleted_tables \cup
                                      {TrashDefaults(TrashRow(nextTrashId, loc[p]), now)}
                 /\ nextTrashId' = nextTrashId + 1
                 /\ Goto(p, "d_drop", [loc[p] EXCEPT !.trashOk = TRUE,
                                                     !.trashId = nextTrashId])
            ELSE /\ UNCHANGED <<deleted_tables, nextTrashId>>
                 /\ Goto(p, "d_drop", loc[p])
    /\ UNCHANGED <<schemas, tables, upload_logs, nextLogId, nextTrashId, requests>>

(* Lines 56-74: the TrashEntry is written; an error is answered 500. *)
DeleteTrashInsert(p) ==
    /\ pc[p] = "d_trash"
    /\ \E ok \in Outcomes :
         /\ Charge(ok)
         /\ IF ok
            THEN /\ deleted_tables' = deleted_tables \cup
                                      {TrashDefaults(TrashRow(nextTrashId, loc[p]), now)}
                 /\ nextTrashId' = nextTrashId + 1
                 /\ Goto(p, "d_drop", [loc[p] EXCEPT !.trashOk = TRUE,
                                                     !.trashId = nextTrashId])
            ELSE /\ UNCHANGED <<deleted_tables, nextTrashId>>
                 /\ Return(p, [op |-> "delete", status |-> 500, step |-> "trash",
                               tableName |-> loc[p].tableName])
    /\ UNCHANGED <<schemas, tables, upload_logs, nextLogId, requests>>

(* Lines 76-82: DROP TABLE IF EXISTS ... CASCADE. *)
DeleteDropTable(p) ==
    /\ pc[p] = "d_drop"
    /\ LET k == <<loc[p].schema, loc[p].table>> IN
       \E ok \in Outcomes :
         /\ Charge(ok)
         /\ IF ok
            THEN /\ tables' = DropTableIfExists(tables, k)
                 /\ Goto(p, "d_unlog",
                         [loc[p] EXCEPT !.droppedRows =
                             IF k \in DOMAIN tables THEN Some(Len(tables[k])) ELSE None])
            ELSE /\ tables' = tables
                 /\ Goto(p, "d_undo", loc[p])
    /\ UNCHANGED <<schemas, upload_logs, deleted_tables, nextLogId, nextTrashId, requests>>

(* Lines 82-90: the drop failed: the trash rows of that table name are      *)
(* deleted again (the result is not looked at) and 500 is answered.         *)
DeleteUndoTrash(p) ==
    /\ pc[p] = "d_undo"
    /\ \E ok \in Outcomes :
         /\ Charge(ok)
         /\ deleted_tables' =
              IF ok THEN {e \in deleted_tables : e.table_name # loc[p].tableName}
              ELSE deleted_tables
    /\ Return(p, [op |-> "delete", status |-> 500, step |-> "drop",
                  tableName |-> loc[p].tableName])
    /\ UNCHANGED <<schemas, tables, upload_logs, nextLogId, nextTrashId, requests>>

DeleteDone(p) ==
    Return(p, [op |-> "delete", status |-> 200, step |-> "done",
               tableName |-> loc[p].tableName,
               trashId |-> loc[p].trashId, droppedRows |-> loc[p].droppedRows])

(* Lines 92-103: the UploadRecords of the table are deleted; an error is    *)
(* only logged.  For the schema 'public' the handler is done.               *)
DeleteLogRemove(p) ==
    /\ pc[p] = "d_unlog"
    /\ \E ok \in Outcomes :
         /\ Charge(ok)
         /\ upload_logs' =
              IF ok THEN {r \in upload_logs : r.table_name # loc[p].tableName}
              ELSE upload_logs
    /\ IF loc[p].schema # "public"
       THEN Goto(p, "d_empty", loc[p])
       ELSE DeleteDone(p)
    /\ UNCHANGED <<schemas, tables, deleted_tables, nextLogId, nextTrashId, requests>>

(* check_schema_empty(p_schema): true when the schema owns no table. *)
check_schema_empty(T, s) == \A k \in DOMAIN T : k[1] # s

(* Lines 104-109: the schema is asked whether it is empty. *)
DeleteCheckEmpty(p) ==
    /\ pc[p] = "d_empty"
    /\ \E ok \in Outcomes :
         /\ Charge(ok)
         /\ IF ok /\ check_schema_empty(tables, loc[p].schema)
            THEN Goto(p, "d_schema", loc[p])
            ELSE DeleteDone(p)
    /\ UNCHANGED <<store, requests>>

(* Lines 109-119: DROP SCHEMA IF EXISTS ... CASCADE; the result is not      *)
(* looked at.                                                               *)
DeleteDropSchema(p) ==
    /\ pc[p] = "d_schema"
    /\ \E ok \in Outcomes :
         /\ Charge(ok)
         /\ IF ok
            THEN /\ schemas' = schemas \ {loc[p].schema}
                 /\ tables' = DropSchemaCascade(tables, loc[p].schema)
            ELSE UNCHANGED <<schemas, tables>>
    /\ DeleteDone(p)
    /\ UNCHANGED <<upload_logs, deleted_tables, nextLogId, nextTrashId, requests>>

----------------------------------------------------------------------------
(* restore: POST of src/app/api/admin/trash/route.ts *)

(* The snapshot rows restore works on: none for a null or empty snapshot. *)
SnapshotRows(item) == IF item.original_data = None THEN <<>> ELSE The(item.original_data)

(* Lines 48-57: the id is read from the request. *)
RestoreBegin(p) ==
    /\ Accept(p)
    /\ \E id \in 1..nextTrashId :
         Goto(p, "r_fetch", [NoLoc EXCEPT !.id = id])
    /\ UNCHANGED <<store, faults>>

RestoreResp(p, status, step, l) ==
    [op |-> "restore", status |-> status, step |-> step, id |-> l.id,
     tableName |-> l.tableName, callFailed |-> l.callFailed,
     tablesCreated |-> l.tablesCreated, logsAdded |-> l.logsAdded,
     trashRemoved |-> l.trashRemoved]

(* Lines 59-74: the TrashEntry is loaded (404 when there is none); a null   *)
(* or empty snapshot skips the table creation and the inserts.             *)
RestoreFetch(p) ==
    /\ pc[p] = "r_fetch"
    /\ \E ok \in Outcomes :
         /\ Charge(ok)
         /\ LET trashItem == IF ok THEN Single({e \in deleted_tables : e.id = loc[p].id})
                             ELSE None
            IN IF trashItem = None
               THEN Return(p, RestoreResp(p, 404, "fetch", loc[p]))
               ELSE Goto(p, IF Len(SnapshotRows(The(trashItem))) > 0
                            THEN "r_create" ELSE "r_log",
                         [loc[p] EXCEPT !.trashItem = trashItem,
                                        !.tableName = The(trashItem).table_name,
                                        !.rows = SnapshotRows(The(trashItem))])
    /\ UNCHANGED <<store, requests>>

(* The table restore names: "${table_name}" is one quoted identifier, so    *)
(* the whole name, dot included, is a table of the default schema.          *)
RestoredTable(tableName) == <<"public", tableName>>

(* Lines 75-99: CREATE TABLE IF NOT EXISTS; an error is answered 500. *)
RestoreCreateTable(p) ==
    /\ pc[p] = "r_create"
    /\ LET k == RestoredTable(loc[p].tableName) IN
       \E ok \in Outcomes :
         /\ Charge(ok)
         /\ IF ok
            THEN /\ tables' = CreateTableIfNotExists(tables, k)
                 /\ Goto(p, "r_insert",
                         [loc[p] EXCEPT !.tablesCreated =
                             IF k \in DOMAIN tables THEN 0 ELSE 1])
            ELSE /\ tables' = tables
                 /\ Return(p, RestoreResp(p, 500, "create",
                                          [loc[p] EXCEPT !.callFailed = TRUE]))
    /\ UNCHANGED <<schemas, upload_logs, deleted_tables, nextLogId, nextTrashId, requests>>

(* Lines 101-113: one insert statement per snapshot row, in order; the      *)
(* result of the call is not looked at.                                     *)
RestoreInsertRow(p) ==
    /\ pc[p] = "r_insert"
    /\ LET k == RestoredTable(loc[p].tableName)
           i == loc[p].i + 1
       IN \E ok \in Outcomes :
            /\ Charge(ok)
            /\ tables' = IF ok /\ ~InsertFails(tables, k)
                         THEN InsertInto(tables, k, <<loc[p].rows[i]>>)
                         ELSE tables
            /\ Goto(p, IF i < Len(loc[p].rows) THEN "r_insert" ELSE "r_log",
                    [loc[p] EXCEPT !.i = i,
                                   !.callFailed = @ \/ ~(ok /\ ~InsertFails(tables, k))])
    /\ UNCHANGED <<schemas, upload_logs, deleted_tables, nextLogId, nextTrashId, requests>>

(* Lines 116-127: the UploadRecord is written again with the row count the  *)
(* TrashEntry carries; an error is only logged.                             *)
RestoreLog(p) ==
    /\ pc[p] = "r_log"
    /\ \E ok \in Outcomes :
         /\ Charge(ok)
         /\ IF ok
            THEN /\ upload_logs' = upload_logs \cup
                       {[id |-> nextLogId, table_name |-> loc[p].tableName,
                         row_count |-> The(loc[p].trashItem).row_count]}
                 /\ nextLogId' = nextLogId + 1
            ELSE UNCHANGED <<upload_logs, nextLogId>>
         /\ Goto(p, "r_untrash",
                 [loc[p] EXCEPT !.logsAdded = IF ok THEN 1 ELSE 0,
                                !.callFailed = @ \/ ~ok])
    /\ UNCHANGED <<schemas, tables, deleted_tables, nextTrashId, requests>>

(* Lines 129-135: the TrashEntry is deleted (the result is not looked at)   *)
(* and success is answered.                                                 *)
RestoreTrashDelete(p) ==
    /\ pc[p] = "r_untrash"
    /\ \E ok \in Outcomes :
         /\ Charge(ok)
         /\ deleted_tables' = IF ok THEN {e \in deleted_tables : e.id # loc[p].id}
                              ELSE deleted_tables
         /\ Return(p, RestoreResp(p, 200, "done",
                [loc[p] EXCEPT !.trashRemoved =
                    IF ok THEN {e.id : e \in {x \in deleted_tables : x.id = loc[p].id}}
                    ELSE {}]))
    /\ UNCHANGED <<schemas, tables, upload_logs, nextLogId, nextTrashId, requests>>

----------------------------------------------------------------------------
(* purge: DELETE of src/app/api/admin/trash/route.ts, one store call *)

(* The purge deleting by the table name of the entry instead of its id,   *)
(* as the compensation of softDelete does.                                 *)
PurgeByTableName(p) ==
    /\ Accept(p)
    /\ \E id \in 0..nextTrashId :
         IF id = 0
         THEN /\ Return(p, [op |-> "purge", id |-> id, status |-> 400])
              /\ UNCHANGED <<deleted_tables, faults>>
         ELSE \E ok \in Outcomes :
                /\ Charge(ok)
                /\ LET deletedItem == IF ok THEN Single({e \in deleted_tables : e.id = id})
                                      ELSE None
                   IN /\ deleted_tables' =
                           {e \in deleted_tables :
                               \A d \in deletedItem : e.table_name # d.table_name}
                      /\ Return(p, [op |-> "purge", id |-> id,
                                    status |-> IF deletedItem = None THEN 500 ELSE 200])
    /\ UNCHANGED <<schemas, tables, upload_logs, nextLogId, nextTrashId>>

(* Lines 146-183: a request without an id is answered 400; the entry of    *)
(* the id is deleted and handed back, and an error (no entry, or a failed  *)
(* call) is answered 500.                                                  *)
Purge(p) ==
    /\ Accept(p)
    /\ \E id \in 0..nextTrashId :
         IF id = 0
         THEN /\ Return(p, [op |-> "purge", id |-> id, status |-> 400])
              /\ UNCHANGED <<deleted_tables, faults>>
         ELSE \E ok \in Outcomes :
                /\ Charge(ok)
                /\ LET deletedItem == IF ok THEN Single({e \in deleted_tables : e.id = id})
                                      ELSE None
                   IN /\ deleted_tables' = {e \in deleted_tables : e \notin deletedItem}
                      /\ Return(p, [op |-> "purge", id |-> id,
                                    status |-> IF deletedItem = None THEN 500 ELSE 200])
    /\ UNCHANGED <<schemas, tables, upload_logs, nextLogId, nextTrashId>>

(* trash list: GET of src/app/api/admin/trash/route.ts, one store call *)

(* Math.ceil(a / b) for b > 0 *)
MathCeil(a, b) == -((-a) \div b)

Max(a, b) == IF a > b THEN a ELSE b

(* Lines 27-34 with the result of Math.ceil handed on as it is. *)
daysLeftNoClamp(expiresAt, t) ==
    LET diffTime == expiresAt - t IN MathCeil(diffTime, DAY)

(* Lines 27-34: days from t to the expiry, rounded up, never below 0. *)
daysLeft(expiresAt, t) ==
    LET diffTime == expiresAt - t IN Max(0, MathCeil(diffTime, DAY))

TrashList(p) ==
    /\ Accept(p)
    /\ \E ok \in Outcomes :
         /\ Charge(ok)
         /\ Return(p, [op |-> "list",
                       status |-> IF ok THEN 200 ELSE 500,
                       at |-> now,
                       items |-> IF ok
                                 THEN {[id |-> e.id, expires_at |-> e.expires_at,
                                        daysLeft |-> daysLeft(e.expires_at, now)] :
                                         e \in deleted_tables}
                                 ELSE {}])
    /\ UNCHANGED store

----------------------------------------------------------------------------
(* CSV decoder: csvToJsonArray of src/stop-local.bat, called by the upload *)
(* at line 440 of src/unnamed/part_004.                                    *)

BOM == "\\uFEFF"

(* Lines 87-124: the loop of parseCSVLines from index i on (1-based). *)
RECURSIVE parseCSVLinesFrom(_, _, _, _, _)
parseCSVLinesFrom(csv, i, currentLine, insideQuotes, lines) ==
    LET push == IF trim(currentLine) # <<>> THEN Append(lines, currentLine) ELSE lines
    IN IF i > Len(csv) THEN push
       ELSE
       LET char == csv[i]
           next == IF i < Len(csv) THEN csv[i + 1] ELSE ""
       IN IF char = "\""
          THEN IF next = "\""
               THEN parseCSVLinesFrom(csv, i + 2, currentLine \o <<"\"", "\"">>,
                                      insideQuotes, lines)
               ELSE parseCSVLinesFrom(csv, i + 1, Append(currentLine, char),
                                      ~insideQuotes, lines)
          ELSE IF (char = "\n" \/ char = "\r") /\ ~insideQuotes
          THEN parseCSVLinesFrom(csv, IF char = "\r" /\ next = "\n" THEN i + 2 ELSE i + 1,
                                 <<>>, insideQuotes, push)
          ELSE parseCSVLinesFrom(csv, i + 1, Append(currentLine, char),
                                 insideQuotes, lines)

parseCSVLines(csv) == parseCSVLinesFrom(csv, 1, <<>>, FALSE, <<>>)

(* Lines 133-163: the loop of parseCSVRow from index i on (1-based). *)
RECURSIVE parseCSVRowFrom(_, _, _, _, _)
parseCSVRowFrom(row, i, currentField, insideQuotes, fields) ==
    IF i > Len(row) THEN Append(fields, currentField)
    ELSE
    LET char == row[i]
        next == IF i < Len(row) THEN row[i + 1] ELSE ""
    IN IF char = "\""
       THEN IF next = "\""
            THEN parseCSVRowFrom(row, i + 2, Append(currentField, "\""),
                                 insideQuotes, fields)
            ELSE parseCSVRowFrom(row, i + 1, currentField, ~insideQuotes, fields)
       ELSE IF char = "," /\ ~insideQuotes
       THEN parseCSVRowFrom(row, i + 1, <<>>, insideQuotes, Append(fields, currentField))
       ELSE parseCSVRowFrom(row, i + 1, Append(currentField, char), insideQuotes, fields)

parseCSVRow(row) == parseCSVRowFrom(row, 1, <<>>, FALSE, <<>>)

(* Lines 63-72: the object of one data line.  A key assigned twice keeps   *)
(* the value of the last header of that name.                              *)
RowObject(headers, line) ==
    LET values == parseCSVRow(line)
        last(h) == CHOOSE j \in 1..Len(headers) :
                      /\ trim(headers[j]) = h
                      /\ \A m \in (j + 1)..Len(headers) : trim(headers[m]) # h
    IN [h \in {trim(headers[j]) : j \in 1..Len(headers)} |->
          IF last(h) <= Len(values) THEN trim(values[last(h)]) ELSE <<>>]

(* Lines 57-75: the loop over the data lines from index i on (1-based). *)
RECURSIVE DataRowsFrom(_, _, _)
DataRowsFrom(lines, headers, i) ==
    IF i > Len(lines) THEN <<>>
    ELSE (IF trim(lines[i]) = <<>> THEN <<>>
          ELSE <<RowObject(headers, trim(lines[i]))>>)
         \o DataRowsFrom(lines, headers, i + 1)

(* Lines 39-78 *)
csvToJsonArray(csv) ==
    LET cleanCsv == IF csv # <<>> /\ Head(csv) = BOM THEN Tail(csv) ELSE csv
        lines == parseCSVLines(cleanCsv)
    IN IF Len(lines) < 2 THEN <<>>
       ELSE DataRowsFrom(lines, parseCSVRow(lines[1]), 2)

(* CSV texts: every string of up to MaxCsvLen of these characters. *)
CsvChars == {"a", "b", ",", "\n", "\"", " "}

CsvTexts == UNION {[1..k -> CsvChars] : k \in 0..MaxCsvLen}

(* An upload that has read the text of its file (line 439). *)
InitCsv ==
    \E csv \in CsvTexts :
        /\ schemas = {"public"}
        /\ tables = <<>>
        /\ upload_logs = {}
        /\ deleted_tables = {}
        /\ nextLogId = 1
        /\ nextTrashId = 1
        /\ pc = [p \in Procs |-> IF p = "p1" THEN "u_text" ELSE "idle"]
        /\ loc = [p \in Procs |-> IF p = "p1" THEN [NoLoc EXCEPT !.csvText = csv]
                                   ELSE NoLoc]
        /\ resp = [p \in Procs |-> NoResp]
        /\ faults = 0
        /\ requests = 1
        /\ now = 0
        /\ ticks = 0

(* File names of a tenant name, a date and the extension .csv *)
CompanyDates ==
    {<<"2", "5", "1", "2", "0", "6">>, <<"2", "5", "0", "1", "3", "1">>,
     <<"0", "0", "1", "2", "0", "1">>}

CompanyFileNames ==
    {company \o date \o <<".", "c", "s", "v">> :
        company \in CompanyNames, date \in CompanyDates}

(* An upload that has taken the file of its form (line 420). *)
InitSchema ==
    \E name \in CompanyFileNames :
        /\ schemas = {"public"}
        /\ tables = <<>>
        /\ upload_logs = {}
        /\ deleted_tables = {}
        /\ nextLogId = 1
        /\ nextTrashId = 1
        /\ pc = [p \in Procs |-> IF p = "p1" THEN "u_file" ELSE "idle"]
        /\ loc = [p \in Procs |-> IF p = "p1" THEN [NoLoc EXCEPT !.fileName = name]
                                   ELSE NoLoc]
        /\ resp = [p \in Procs |-> NoResp]
        /\ faults = 0
        /\ requests = 1
        /\ now = 0
        /\ ticks = 0

(* Lines 421-432: parseResult = parseFileName(fileName), 400 when invalid *)
ParseName(p) ==
    /\ pc[p] = "u_file"
    /\ LET parseResult == parseFileName(loc[p].fileName)
       IN IF ~parseResult.isValid
          THEN Return(p, [op |-> "upload", status |-> 400,
                          error |-> parseResult.errorMessage,
                          file |-> [name |-> loc[p].fileName, rows |-> 0]])
          ELSE Goto(p, "u_name",
                    [loc[p] EXCEPT !.companyName = parseResult.companyName,
                                   !.fileDate = parseResult.fileDate])
    /\ UNCHANGED <<store, faults, requests>>

(* Line 434: schemaName = generateSchemaName(companyName) *)
ResolveSchema(p) ==
    /\ pc[p] = "u_name"
    /\ Return(p, [op |-> "schema", status |-> 0,
                  companyName |-> loc[p].companyName,
                  schemaName |-> generateSchemaName(loc[p].companyName)])
    /\ UNCHANGED <<store, faults, requests>>

(* Line 440: rows = csvToJsonArray(csvText) *)
DecodeCsv(p) ==
    /\ pc[p] = "u_text"
    /\ Return(p, [op |-> "decode", status |-> 0, csv |-> loc[p].csvText,
                  rows |-> csvToJsonArray(loc[p].csvText)])
    /\ UNCHANGED <<store, faults, requests>>

----------------------------------------------------------------------------
(* SQL text: the insert statements of the upload (generateInsertSQL of     *)
(* src/unnamed/part_004) and the statements of restore                     *)
(* (src/app/api/admin/trash/route.ts).  A statement is the sequence of its *)
(* characters; a keyword or a name the code pastes in whole, none of which *)
(* holds a quote, is one element.  A row is the sequence of its            *)
(* <<key, value>> pairs in key order, a value a number, a string or null.  *)

JsString(cs) == [type |-> "string", num |-> 0, text |-> cs]
JsNumber(n) == [type |-> "number", num |-> n, text |-> <<>>]
JsNull == [type |-> "null", num |-> 0, text |-> <<>>]
JsUndefined == [type |-> "undefined", num |-> 0, text |-> <<>>]

ObjectKeys(row) == [i \in 1..Len(row) |-> row[i][1]]

(* row[col] *)
RowGet(row, col) ==
    IF \E i \in 1..Len(row) : row[i][1] = col
    THEN row[CHOOSE i \in 1..Len(row) : row[i][1] = col][2]
    ELSE JsUndefined

(* String(n) of a natural number *)
RECURSIVE NumberString(_)
NumberString(n) ==
    IF n < 10 THEN <<Digits[n + 1]>>
    ELSE NumberString(n \div 10) \o <<Digits[(n % 10) + 1]>>

(* value.replace(/'/g, "''") *)
RECURSIVE escapeQuotes(_)
escapeQuotes(cs) ==
    IF cs = <<>> THEN <<>>
    ELSE (IF Head(cs) = "'" THEN <<"'", "'">> ELSE <<Head(cs)>>)
         \o escapeQuotes(Tail(cs))

(* parts.join(sep) *)
RECURSIVE JoinWith(_, _)
JoinWith(parts, sep) ==
    IF parts = <<>> THEN <<>>
    ELSE IF Len(parts) = 1 THEN parts[1]
    ELSE parts[1] \o sep \o JoinWith(Tail(parts), sep)

QuotedIdent(name) == <<"\"", name, "\"">>

(* generateInsertSQL with the replace of line 667 left out *)
generateInsertSQLNoEscape(schemaName, tableName, sanitizedColumns, originalColumns, rows) ==
    LET columnList ==
            JoinWith([j \in 1..Len(sanitizedColumns) |->
                         QuotedIdent(sanitizedColumns[j])], <<", ">>)
        values(row) ==
            [j \in 1..Len(originalColumns) |->
                LET v == RowGet(row, originalColumns[j])
                    value == IF v.type \in {"null", "undefined"} THEN <<>> ELSE v.text
                IN <<"'">> \o value \o <<"'">>]
        valuesList ==
            [i \in 1..Len(rows) |->
                <<"(">> \o JoinWith(values(rows[i]), <<", ">>) \o <<")">>]
    IN <<"INSERT INTO ", schemaName, ".">> \o QuotedIdent(tableName) \o <<" (">>
       \o columnList \o <<") VALUES ">> \o JoinWith(valuesList, <<", ">>) \o <<";">>

(* Lines 652-674 *)
generateInsertSQL(schemaName, tableName, sanitizedColumns, originalColumns, rows) ==
    LET columnList ==
            JoinWith([j \in 1..Len(sanitizedColumns) |->
                         QuotedIdent(sanitizedColumns[j])], <<", ">>)
        values(row) ==
            [j \in 1..Len(originalColumns) |->
                LET v == RowGet(row, originalColumns[j])
                    value == IF v.type \in {"null", "undefined"} THEN <<>> ELSE v.text
                    escapedValue == escapeQuotes(value)
                IN <<"'">> \o escapedValue \o <<"'">>]
        valuesList ==
            [i \in 1..Len(rows) |->
                <<"(">> \o JoinWith(values(rows[i]), <<", ">>) \o <<")">>]
    IN <<"INSERT INTO ", schemaName, ".">> \o QuotedIdent(tableName) \o <<" (">>
       \o columnList \o <<") VALUES ">> \o JoinWith(valuesList, <<", ">>) \o <<";">>

(* trash/route.ts lines 80-85: the definition of one column *)
columnDef(firstRow, col) ==
    IF col = "id" THEN QuotedIdent(col) \o <<" SERIAL PRIMARY KEY">>
    ELSE IF RowGet(firstRow, col).type = "number" THEN QuotedIdent(col) \o <<" NUMERIC">>
    ELSE QuotedIdent(col) \o <<" TEXT">>

(* trash/route.ts lines 76-88 *)
createTableSQL(tableName, firstRow) ==
    LET columns == ObjectKeys(firstRow)
        columnDefs == [j \in 1..Len(columns) |-> columnDef(firstRow, columns[j])]
    IN <<"CREATE TABLE IF NOT EXISTS ">> \o QuotedIdent(tableName) \o <<" (">>
       \o JoinWith(columnDefs, <<", ">>) \o <<");">>

(* trash/route.ts lines 104-109: the text written for one value *)
restoreValue(val) ==
    IF val.type \in {"null", "undefined"} THEN <<"NULL">>
    ELSE IF val.type = "number" THEN NumberString(val.num)
    ELSE <<"'">> \o escapeQuotes(val.text) \o <<"'">>

(* The insert of restore with the columns taken from the row itself *)
insertSQLOwnKeys(tableName, firstRow, row) ==
    LET dataColumns == SelectSeq(ObjectKeys(row), LAMBDA col : col # "id")
        values == [j \in 1..Len(dataColumns) |-> restoreValue(RowGet(row, dataColumns[j]))]
    IN [columns |-> dataColumns, values |-> values,
        sql |-> <<"INSERT INTO ">> \o QuotedIdent(tableName) \o <<" (">>
                \o JoinWith([j \in 1..Len(dataColumns) |-> QuotedIdent(dataColumns[j])],
                            <<", ">>)
                \o <<") VALUES (">> \o JoinWith(values, <<", ">>) \o <<");">>]

(* trash/route.ts lines 101-112: dataColumns, values and insertSQL of one  *)
(* snapshot row                                                            *)
insertSQL(tableName, firstRow, row) ==
    LET dataColumns == SelectSeq(ObjectKeys(firstRow), LAMBDA col : col # "id")
        values == [j \in 1..Len(dataColumns) |-> restoreValue(RowGet(row, dataColumns[j]))]
    IN [columns |-> dataColumns, values |-> values,
        sql |-> <<"INSERT INTO ">> \o QuotedIdent(tableName) \o <<" (">>
                \o JoinWith([j \in 1..Len(dataColumns) |-> QuotedIdent(dataColumns[j])],
                            <<", ">>)
                \o <<") VALUES (">> \o JoinWith(values, <<", ">>) \o <<");">>]

(* Data values: every string of up to MaxValueLen of these characters, a   *)
(* number and null.                                                        *)
ValueChars == {"a", "'"}

TextValues == {JsString(t) : t \in UNION {[1..k -> ValueChars] : k \in 0..MaxValueLen}}

JsonValues == TextValues \cup {JsNumber(7), JsNull}

(* Rows with the given keys, in that order, and values of the given set *)
RowsOf(keys, values) ==
    {[j \in 1..Len(keys) |-> <<keys[j], v[j]>>] : v \in [1..Len(keys) -> values]}

(* Rows of an upload: the decoder gives every row the keys of the header,  *)
(* here names sanitizeColumnName leaves as they are.                       *)
UploadColumns == <<"a", "b">>

UploadRowSets ==
    {<<r>> : r \in RowsOf(UploadColumns, TextValues)}
    \cup {<<r, s>> : r \in RowsOf(UploadColumns, TextValues),
                     s \in RowsOf(UploadColumns, {JsString(<<>>), JsString(<<"'">>)})}

(* Snapshots of a TrashEntry: rows as row_to_json wrote them, the id first, *)
(* and rows whose keys differ from those of the first row.                  *)
SnapshotSets ==
    LET idRows(keys) == {<<<<"id", JsNumber(1)>>>> \o r : r \in RowsOf(keys, JsonValues)}
        firstRows == idRows(<<"a", "b">>) \cup RowsOf(<<"a">>, JsonValues)
        nextRows == idRows(<<"a", "b">>) \cup idRows(<<"b">>)
                    \cup RowsOf(<<"b", "c">>, {JsString(<<"a">>), JsNumber(7)})
    IN {<<r>> : r \in firstRows} \cup {<<r, s>> : r \in firstRows, s \in nextRows}

(* An upload about to build the insert of a batch (part_004 line 513), or  *)
(* a restore that has loaded a TrashEntry with a snapshot (trash/route.ts  *)
(* line 74).                                                               *)
InitSql ==
    \E kind \in {"u_sql", "r_sql"} :
    \E rows \in (IF kind = "u_sql" THEN UploadRowSets ELSE SnapshotSets) :
        /\ schemas = {"public"}
        /\ tables = <<>>
        /\ upload_logs = {}
        /\ deleted_tables = {}
        /\ nextLogId = 1
        /\ nextTrashId = 1
        /\ pc = [p \in Procs |-> IF p = "p1" THEN kind ELSE "idle"]
        /\ loc = [p \in Procs |->
                    IF p = "p1"
                    THEN [NoLoc EXCEPT !.schema = "a",
                                       !.table = <<"sales_251206_000000">>,
                                       !.tableName = "a.sales_251206_000000",
                                       !.rows = rows]
                    ELSE NoLoc]
        /\ resp = [p \in Procs |-> NoResp]
        /\ faults = 0
        /\ requests = 1
        /\ now = 0
        /\ ticks = 0

(* part_004 line 513: insertSql = generateInsertSQL(...) *)
UploadBuildInsert(p) ==
    /\ pc[p] = "u_sql"
    /\ Return(p, [op |-> "insert_sql", status |-> 0, rows |-> loc[p].rows,
                  sql |-> generateInsertSQL(loc[p].schema, loc[p].table[1],
                                            UploadColumns, UploadColumns, loc[p].rows)])
    /\ UNCHANGED <<store, faults, requests>>

(* trash/route.ts lines 74-112: the statements restore builds *)
RestoreBuildSql(p) ==
    /\ pc[p] = "r_sql"
    /\ LET original_data == loc[p].rows
           firstRow == original_data[1]
       IN Return(p, [op |-> "restore_sql", status |-> 0, rows |-> original_data,
                     createTableSQL |-> createTableSQL(loc[p].tableName, firstRow),
                     inserts |-> [i \in 1..Len(original_data) |->
                                     insertSQL(loc[p].tableName, firstRow,
                                               original_data[i])]])
    /\ UNCHANGED <<store, faults, requests>>

----------------------------------------------------------------------------
(* table page: GET of src/app/api/admin/tables/[table]/route.ts *)

WordChars ==
    {"a", "b", "c", "d", "e", "f", "g", "h", "i", "j", "k", "l", "m", "n", "o",
     "p", "q", "r", "s", "t", "u", "v", "w", "x", "y", "z",
     "A", "B", "C", "D", "E", "F", "G", "H", "I", "J", "K", "L", "M", "N", "O",
     "P", "Q", "R", "S", "T", "U", "V", "W", "X", "Y", "Z",
     "0", "1", "2", "3", "4", "5", "6", "7", "8", "9", "_"}

(* Length of the longest prefix of cs made of word characters: what        *)
(* [a-zA-Z0-9_]+ consumes.                                                 *)
RECURSIVE WordPrefix(_)
WordPrefix(cs) ==
    IF cs # <<>> /\ Head(cs) \in WordChars THEN 1 + WordPrefix(Tail(cs)) ELSE 0

(* The test of line 36 with the end anchor left out of the pattern:        *)
(* /^[a-zA-Z0-9_]+(\.[a-zA-Z0-9_]+)?/                                     *)
TableNameTestUnanchored(cs) == WordPrefix(cs) >= 1

(* Line 36: /^[a-zA-Z0-9_]+(\.[a-zA-Z0-9_]+)?$/.test(tableName) *)
TableNameTest(cs) ==
    LET n1 == WordPrefix(cs)
        rest == SubSeq(cs, n1 + 2, Len(cs))
    IN /\ n1 >= 1
       /\ \/ n1 = Len(cs)
          \/ /\ cs[n1 + 1] = "."
             /\ WordPrefix(rest) >= 1
             /\ WordPrefix(rest) = Len(rest)

(* Lines 44-46: [schema, table] of a name that passed the test. *)
SplitTableName(cs) ==
    LET n1 == WordPrefix(cs) IN
    IF \E i \in 1..Len(cs) : cs[i] = "."
    THEN <<Join(SubSeq(cs, 1, n1)), Join(SubSeq(cs, n1 + 2, Len(cs)))>>
    ELSE <<"public", Join(cs)>>

(* get_table_data(p_schema, p_table, p_limit, p_offset): the rows of the   *)
(* table in their stable order from p_offset on, p_limit at most, with the *)
(* number of rows of the table; an error (no result) for a table that does *)
(* not exist and for a negative limit or offset.                           *)
get_table_data(T, args) ==
    LET k == <<args.p_schema, <<args.p_table>>>> IN
    IF k \notin DOMAIN T \/ args.p_limit < 0 \/ args.p_offset < 0
    THEN None
    ELSE Some([data |-> SubSeq(T[k], args.p_offset + 1,
                               Min(args.p_offset + args.p_limit, Len(T[k]))),
               totalCount |-> Len(T[k])])

(* Line 32 with the page number taken as the number of pages to skip. *)
PageOffsetFromZero(page, pageSize) == page * pageSize

(* Line 32 *)
PageOffset(page, pageSize) == (page - 1) * pageSize

PageResp(status, tableName, page, pageSize, call, rows, totalRows) ==
    [op |-> "page", status |-> status, tableName |-> tableName,
     page |-> page, pageSize |-> pageSize, call |-> call,
     rows |-> rows, totalRows |-> totalRows]

(* Lines 20-92: the whole handler; its one store call is get_table_data. *)
TablePage(p, names, pages, sizes) ==
    /\ Accept(p)
    /\ \E tableName \in names, page \in pages, pageSize \in sizes :
         LET offset == PageOffset(page, pageSize) IN
         IF ~TableNameTest(tableName)
         THEN /\ Return(p, PageResp(400, tableName, page, pageSize, None, <<>>, 0))
              /\ UNCHANGED faults
         ELSE \E ok \in Outcomes :
                LET args == [p_schema |-> SplitTableName(tableName)[1],
                             p_table |-> SplitTableName(tableName)[2],
                             p_limit |-> pageSize, p_offset |-> offset]
                    result == IF ok THEN get_table_data(tables, args) ELSE None
                IN /\ Charge(ok)
                   /\ IF result = None
                      THEN Return(p, PageResp(500, tableName, page, pageSize,
                                              Some(args), <<>>, 0))
                      ELSE Return(p, PageResp(200, tableName, page, pageSize,
                                              Some(args), The(result).data,
                                              The(result).totalCount))
    /\ UNCHANGED store

(* Identifiers the page read is asked for: every string of up to           *)
(* MaxNameLen of these characters, the name of the live table, and that    *)
(* name with a character added.                                            *)
PageChars == {"a", "_", ".", "'", " "}

LiveName ==
    <<"a", ".", "s", "a", "l", "e", "s", "_", "2", "5", "1", "2", "0", "6", "_",
      "0", "0", "0", "0", "0", "0">>

PageNames ==
    UNION {[1..k -> PageChars] : k \in 0..MaxNameLen}
      \cup {LiveName}
      \cup {LiveName \o <<c>> : c \in PageChars \cup {"Z", "1", "\"", ";", "\n"}}
      \cup {LiveName \o <<".", "a">>}

(* The store the page read runs against: the table of one earlier upload   *)
(* with n rows (none when its first batch failed).                         *)
InitPage(sizes) ==
    \E n \in sizes :
        LET simpleTableName == SplitTableName(LiveName)[2] IN
        /\ schemas = {"public", "a"}
        /\ tables = (<<"a", <<simpleTableName>>>> :> FileRows("p1", n))
        /\ upload_logs = IF n = 0 THEN {}
                         ELSE {[id |-> 1, table_name |-> fullTableName("a", simpleTableName),
                                row_count |-> n]}
        /\ nextLogId = IF n = 0 THEN 1 ELSE 2
        /\ deleted_tables = {}
        /\ nextTrashId = 1
        /\ pc = [p \in Procs |-> "idle"]
        /\ loc = [p \in Procs |-> NoLoc]
        /\ resp = [p \in Procs |-> NoResp]
        /\ faults = 0
        /\ requests = 0
        /\ now = 0
        /\ ticks = 0

PageNumbers == 0..3
PageSizes == -1..3

----------------------------------------------------------------------------
(* Specifications *)

(* A new request takes the first idle slot. *)
FirstIdle(p) == p = "p1" \/ pc["p1"] # "idle"

(* Requests of the slots interleave at every store call.  The trash list,  *)
(* which writes nothing, is left to the runs of NextSeq and NextTrash.     *)
Next ==
    \E p \in Procs :
        \/ FirstIdle(p) /\ UploadBegin(p, SmallFiles)
        \/ FirstIdle(p) /\ DeleteBegin(p)
        \/ FirstIdle(p) /\ RestoreBegin(p)
        \/ FirstIdle(p) /\ Purge(p)
        \/ UploadCreateSchema(p)
        \/ UploadDropTable(p)
        \/ UploadCreateTable(p)
        \/ UploadPolicies(p)
        \/ UploadInsertBatch(p)
        \/ UploadLog(p)
        \/ DeleteFetchLog(p)
        \/ DeleteReadTable(p)
        \/ DeleteTrashInsert(p)
        \/ DeleteDropTable(p)
        \/ DeleteUndoTrash(p)
        \/ DeleteLogRemove(p)
        \/ DeleteCheckEmpty(p)
        \/ DeleteDropSchema(p)
        \/ RestoreFetch(p)
        \/ RestoreCreateTable(p)
        \/ RestoreInsertRow(p)
        \/ RestoreLog(p)
        \/ RestoreTrashDelete(p)

Spec == Init /\ [][Next]_vars

AllIdle == \A p \in Procs : pc[p] = "idle"

(* Requests one after the other: a request is accepted only when no other  *)
(* is in flight, and the slots take turns, so that resp holds the last two *)
(* responses.                                                               *)
Turn(p) == AllIdle /\ p = (IF requests % 2 = 0 THEN "p1" ELSE "p2")

LastSlot == IF requests % 2 = 1 THEN "p1" ELSE "p2"
PrevSlot == IF requests % 2 = 1 THEN "p2" ELSE "p1"

NextSeq ==
    \E p \in Procs :
        \/ Turn(p) /\ UploadBegin(p, SmallFiles)
        \/ Turn(p) /\ DeleteBegin(p)
        \/ Turn(p) /\ RestoreBegin(p)
        \/ Turn(p) /\ Purge(p)
        \/ Turn(p) /\ TrashList(p)
        \/ UploadCreateSchema(p)
        \/ UploadDropTable(p)
        \/ UploadCreateTable(p)
        \/ UploadPolicies(p)
        \/ UploadInsertBatch(p)
        \/ UploadLog(p)
        \/ DeleteFetchLog(p)
        \/ DeleteReadTable(p)
        \/ DeleteTrashInsert(p)
        \/ DeleteDropTable(p)
        \/ DeleteUndoTrash(p)
        \/ DeleteLogRemove(p)
        \/ DeleteCheckEmpty(p)
        \/ DeleteDropSchema(p)
        \/ RestoreFetch(p)
        \/ RestoreCreateTable(p)
        \/ RestoreInsertRow(p)
        \/ RestoreLog(p)
        \/ RestoreTrashDelete(p)

SpecSeq == Init /\ [][NextSeq]_vars

(* One upload at a time, files of up to three batches. *)
NextUpload ==
    \/ requests < MaxBatchUploads /\ UploadBegin("p1", BatchFiles)
    \/ UploadCreateSchema("p1")
    \/ UploadDropTable("p1")
    \/ UploadCreateTable("p1")
    \/ UploadPolicies("p1")
    \/ UploadInsertBatch("p1")
    \/ UploadLog("p1")

SpecUpload == Init /\ [][NextUpload]_vars

(* One upload at a time while the clock runs: a second, or a whole day,    *)
(* passes between two steps.                                               *)
NextNames ==
    \/ requests < MaxBatchUploads /\ UploadBegin("p1", SmallFiles)
    \/ UploadCreateSchema("p1")
    \/ UploadDropTable("p1")
    \/ UploadCreateTable("p1")
    \/ UploadPolicies("p1")
    \/ UploadInsertBatch("p1")
    \/ UploadLog("p1")
    \/ Tick({1, DAY})

SpecNames == Init /\ [][NextNames]_vars

(* One upload at a time, files of every name and of no or one data row. *)
NextValidate ==
    \/ requests < MaxBatchUploads /\ UploadBegin("p1", NamedFiles)
    \/ UploadCreateSchema("p1")
    \/ UploadDropTable("p1")
    \/ UploadCreateTable("p1")
    \/ UploadPolicies("p1")
    \/ UploadInsertBatch("p1")
    \/ UploadLog("p1")

SpecValidate == Init /\ [][NextValidate]_vars

(* The decoder applied to every CSV text. *)
NextSchema == ParseName("p1") \/ ResolveSchema("p1")

SpecSchema == InitSchema /\ [][NextSchema]_vars

(* The store as an upload of two rows followed by the softDelete of its    *)
(* table left it: the TrashEntry 1 with the snapshot of the two rows, no   *)
(* live table and no UploadRecord.  No request is in flight.               *)
InitRestore ==
    /\ schemas = {"public"}
    /\ tables = <<>>
    /\ upload_logs = {}
    /\ deleted_tables =
          {TrashDefaults([id |-> 1, table_name |-> <<"a", "sales_251206_000000">>,
                          row_count |-> 2,
                          original_data |-> Some(FileRows("p1", 2))], 0)}
    /\ nextLogId = 2
    /\ nextTrashId = 2
    /\ pc = [p \in Procs |-> "idle"]
    /\ loc = [p \in Procs |-> NoLoc]
    /\ resp = [p \in Procs |-> NoResp]
    /\ faults = 0
    /\ requests = 0
    /\ now = 0
    /\ ticks = 0

(* Restore requests of the two slots, interleaved at every store call. *)
NextRestore ==
    \E p \in Procs :
        \/ RestoreBegin(p)
        \/ RestoreFetch(p)
        \/ RestoreCreateTable(p)
        \/ RestoreInsertRow(p)
        \/ RestoreLog(p)
        \/ RestoreTrashDelete(p)

SpecRestore == InitRestore /\ [][NextRestore]_vars

NextSql == UploadBuildInsert("p1") \/ RestoreBuildSql("p1")

SpecSql == InitSql /\ [][NextSql]_vars

NextCsv == DecodeCsv("p1")

SpecCsv == InitCsv /\ [][NextCsv]_vars

(* Soft deletes in slot p1 and trash lists in slot p2 while the clock      *)
(* runs: a second, a day or 29 days pass between two steps.                *)
NextTrash ==
    \/ DeleteBegin("p1")
    \/ DeleteFetchLog("p1")
    \/ DeleteReadTable("p1")
    \/ DeleteTrashInsert("p1")
    \/ DeleteDropTable("p1")
    \/ DeleteUndoTrash("p1")
    \/ DeleteLogRemove("p1")
    \/ DeleteCheckEmpty("p1")
    \/ DeleteDropSchema("p1")
    \/ TrashList("p2")
    \/ Tick({1, DAY, 29 * DAY})

SpecTrash == Init /\ [][NextTrash]_vars

(* Page reads of every identifier, one after the other. *)
NextPageNames == TablePage("p1", PageNames, {1}, {2})

SpecPageNames == InitPage({2}) /\ [][NextPageNames]_vars

(* Page reads of the live table, one after the other, the slots taking     *)
(* turns; nothing writes to the table.                                     *)
NextPage == \E p \in Procs : Turn(p) /\ TablePage(p, {LiveName}, PageNumbers, PageSizes)

SpecPage == InitPage(0..MaxPageRows) /\ [][NextPage]_vars

----------------------------------------------------------------------------
(* Properties *)

TableKey(tableName) ==
    <<ParseTableName(tableName).schema, ParseTableName(tableName).table>>

IsDeleteStep(p) ==
    /\ pc[p] \in {"d_log", "d_read", "d_trash", "d_drop", "d_undo",
                  "d_unlog", "d_empty", "d_schema"}
    /\ pc'[p] # pc[p]

(* C1: a step of softDelete changes the live tables, the namespaces or the *)
(* UploadRecords only once its own TrashEntry write has succeeded; a       *)
(* failed TrashEntry write ends the request with a 500 and leaves the live *)
(* tables, the namespaces and the UploadRecords as they were.              *)
C1_DropOnlyAfterTrashWrite ==
    [][\A p \in Procs :
         IsDeleteStep(p) =>
           /\ (tables' # tables \/ upload_logs' # upload_logs \/ schemas' # schemas)
                => /\ loc[p].trashOk
                   /\ loc[p].trashId \in 1..(nextTrashId - 1)
           /\ (pc[p] = "d_trash" /\ deleted_tables' = deleted_tables)
                => /\ pc'[p] = "idle"
                   /\ resp'[p].op = "delete" /\ resp'[p].status = 500
                   /\ UNCHANGED <<tables, upload_logs, schemas>>]_vars

(* A softDelete whose TrashEntry write failed has answered 500 while the   *)
(* live table with its rows and its UploadRecord are still there.          *)
C1_Witness ==
    \E p \in Procs :
        /\ resp[p].op = "delete" /\ resp[p].status = 500 /\ resp[p].step = "trash"
        /\ TableKey(resp[p].tableName) \in DOMAIN tables
        /\ Len(tables[TableKey(resp[p].tableName)]) > 0
        /\ \E r \in upload_logs : r.table_name = resp[p].tableName

(* C2: whenever softDelete drops a live table, the TrashEntry it wrote     *)
(* holds all the rows the table had at the drop.                           *)
C2_SnapshotHoldsAllRows ==
    [][\A p \in Procs :
         LET k == <<loc[p].schema, loc[p].table>> IN
         (pc[p] = "d_drop" /\ pc'[p] = "d_unlog" /\ k \in DOMAIN tables)
           => \E e \in deleted_tables :
                 e.id = loc[p].trashId /\ SnapshotRows(e) = tables[k]]_vars

(* C3: the namespace drop that follows a softDelete removes no table, and  *)
(* never the namespace 'public'.                                           *)
C3_NamespaceDropRemovesNoTable ==
    [][\A p \in Procs :
         (pc[p] = "d_schema" /\ pc'[p] # pc[p])
           => tables' = tables /\ "public" \in schemas']_vars

(* C4: a restore answered with success has removed its TrashEntry and only *)
(* that one, added one UploadRecord and created one live table.            *)
C4_RestoreOneOfEach ==
    \A p \in Procs :
        (resp[p].op = "restore" /\ resp[p].status = 200)
          => /\ resp[p].trashRemoved = {resp[p].id}
             /\ resp[p].logsAdded = 1
             /\ resp[p].tablesCreated = 1

(* C5: when the table creation, a row insert or the UploadRecord write of  *)
(* a restore has failed, the TrashEntry it loaded is still in the trash,   *)
(* unchanged, when the request ends.                                       *)
C5_FailedRestoreKeepsTrashEntry ==
    [][\A p \in Procs :
         (pc[p] \in {"r_create", "r_insert", "r_log", "r_untrash"}
            /\ pc'[p] = "idle" /\ resp'[p].callFailed)
           => loc[p].trashItem \subseteq deleted_tables']_vars

(* C6: a successful softDelete of a table that holds uploaded rows,        *)
(* followed at once by a successful restore of the TrashEntry it wrote,    *)
(* leaves a live table with as many rows as the softDelete dropped and an  *)
(* UploadRecord with that row count.                                       *)
C6_DeleteRestoreKeepsRowCount ==
    (/\ AllIdle
     /\ resp[PrevSlot].op = "delete" /\ resp[PrevSlot].status = 200
     /\ resp[PrevSlot].droppedRows # None
     /\ The(resp[PrevSlot].droppedRows) > 0
     /\ resp[LastSlot].op = "restore" /\ resp[LastSlot].status = 200
     /\ resp[LastSlot].id = resp[PrevSlot].trashId)
      => LET tableName == resp[PrevSlot].tableName
             n == The(resp[PrevSlot].droppedRows)
         IN /\ \E k \in {TableKey(tableName), RestoredTable(tableName)} :
                   k \in DOMAIN tables /\ Len(tables[k]) = n
            /\ \E r \in upload_logs : r.table_name = tableName /\ r.row_count = n

(* C7: a TrashEntry leaves the trash only by the restore or the purge of   *)
(* its own id, or by the compensation of the softDelete that wrote it.     *)
C7_TrashEntryStays ==
    [][\A e \in deleted_tables :
         e \notin deleted_tables' =>
           \E p \in Procs :
              \/ pc[p] = "r_untrash" /\ pc'[p] = "idle" /\ loc[p].id = e.id
              \/ /\ pc[p] = "idle" /\ requests' = requests + 1
                 /\ resp'[p].op = "purge" /\ resp'[p].id = e.id
              \/ pc[p] = "d_undo" /\ pc'[p] = "idle" /\ loc[p].trashId = e.id]_vars

(* C8: the step in which an insert batch fails ends the upload with a 500  *)
(* naming the rows inserted so far, and the table then holds exactly the   *)
(* rows of the batches before it, in the order of the file.                *)
C8_FailedBatchLeavesPrefix ==
    [][\A p \in Procs :
         LET k == <<loc[p].schema, loc[p].table>> IN
         (pc[p] = "u_insert" /\ (pc'[p] # pc[p] \/ loc'[p] # loc[p]) /\ tables' = tables)
           => /\ pc'[p] = "idle"
              /\ resp'[p].op = "upload" /\ resp'[p].status = 500
              /\ resp'[p].insertedCount = loc[p].i
              /\ loc[p].i % BATCH_SIZE = 0
              /\ k \in DOMAIN tables'
              /\ tables'[k] = SubSeq(loc[p].rows, 1, loc[p].i)]_vars

(* The third batch of a 250 row file has failed: the table holds the first *)
(* 200 rows.                                                               *)
C8_Witness ==
    \E p \in Procs :
        /\ pc[p] = "idle"
        /\ resp[p].op = "upload" /\ resp[p].status = 500 /\ resp[p].step = "insert"
        /\ resp[p].insertedCount = 2 * BATCH_SIZE
        /\ tables[TableKey(resp[p].tableName)] = FileRows(p, 2 * BATCH_SIZE)

(* C9: once the namespace creation, the table drop or the table creation   *)
(* of an upload has failed, the upload inserts no batch, writes no         *)
(* UploadRecord and is answered with an error.                             *)
C9_DdlFailureAborts ==
    \A p \in Procs :
        /\ loc[p].ddlError => (loc[p].insertedCount = 0 /\ pc[p] # "u_log")
        /\ (resp[p].op = "upload" /\ resp[p].status = 200) => ~resp[p].ddlError

(* C10: the step in which the UploadRecord write fails answers the upload  *)
(* with success and the row count of the file, and leaves the table with   *)
(* all the rows of the file.                                               *)
C10_LedgerFailureIsNotFatal ==
    [][\A p \in Procs :
         LET k == <<loc[p].schema, loc[p].table>> IN
         (pc[p] = "u_log" /\ pc'[p] = "idle" /\ upload_logs' = upload_logs)
           => /\ resp'[p].op = "upload" /\ resp'[p].status = 200
              /\ resp'[p].rowCount = Len(loc[p].rows)
              /\ k \in DOMAIN tables'
              /\ tables'[k] = loc[p].rows]_vars

(* A 250 row upload has been answered with success although its           *)
(* UploadRecord was not written; the table holds the 250 rows.             *)
C10_Witness ==
    \E p \in Procs :
        /\ pc[p] = "idle"
        /\ resp[p].op = "upload" /\ resp[p].status = 200 /\ resp[p].logError
        /\ resp[p].rowCount = 250
        /\ tables[TableKey(resp[p].tableName)] = FileRows(p, 250)
        /\ \A r \in upload_logs : r.table_name # resp[p].tableName

(* A step that answers an upload. *)
UploadAnswered(p) ==
    /\ pc'[p] = "idle"
    /\ pc[p] # "idle" \/ requests' # requests
    /\ resp'[p].op = "upload"

(* C11 as stated: every step of an upload adds one UploadRecord when it    *)
(* answers the upload with success and none otherwise, so that the number  *)
(* of UploadRecords is the number of uploads answered with success.        *)
C11_OneRecordPerSuccess ==
    [][/\ upload_logs \subseteq upload_logs'
       /\ Cardinality(upload_logs' \ upload_logs) =
            IF \E p \in Procs : UploadAnswered(p) /\ resp'[p].status = 200
            THEN 1 ELSE 0]_vars

(* C11: every step of an upload adds one UploadRecord when it answers the  *)
(* upload with success and the ledger write has not failed, and none       *)
(* otherwise: the number of UploadRecords is the number of uploads         *)
(* answered with success less those whose ledger write failed, and an      *)
(* upload answered with an error adds none.                                *)
C11_OneRecordPerLoggedSuccess ==
    [][/\ upload_logs \subseteq upload_logs'
       /\ Cardinality(upload_logs' \ upload_logs) =
            IF \E p \in Procs : /\ UploadAnswered(p) /\ resp'[p].status = 200
                                /\ ~resp'[p].logError
            THEN 1 ELSE 0]_vars

(* Two uploads have been answered with success; the ledger write of the    *)
(* second failed, and the ledger holds the one UploadRecord of the first.  *)
C11_Witness ==
    /\ requests = 2
    /\ pc["p1"] = "idle"
    /\ resp["p1"].op = "upload" /\ resp["p1"].status = 200 /\ resp["p1"].logError
    /\ faults = 1
    /\ Cardinality(upload_logs) = 1

(* C12: no two UploadRecords carry the same table identifier.              *)
C12_TableIdentifierUnique ==
    \A r1 \in upload_logs, r2 \in upload_logs :
        r1.table_name = r2.table_name => r1 = r2

(* The name grammar: a tenant prefix that is not blank, six digits whose   *)
(* third and fourth are a month 01..12 and whose last two are a day        *)
(* 01..31, and the extension .csv in any case.                             *)
TwoDigits(lo, hi) == {<<Digits[(n \div 10) + 1], Digits[(n % 10) + 1]>> : n \in lo..hi}

NameGrammar(cs) ==
    LET L == Len(cs) IN
    /\ L >= 11
    /\ SubSeq(cs, L - 3, L) \in
          {<<".", c, s, v>> : c \in {"c", "C"}, s \in {"s", "S"}, v \in {"v", "V"}}
    /\ SubSeq(cs, L - 9, L - 8) \in TwoDigits(0, 99)
    /\ SubSeq(cs, L - 7, L - 6) \in TwoDigits(1, 12)
    /\ SubSeq(cs, L - 5, L - 4) \in TwoDigits(1, 31)
    /\ \E i \in 1..(L - 10) : cs[i] # " "

(* C13: the step that takes in an upload lets it go on to the store only   *)
(* when its file name is in the name grammar and its CSV has a data row;   *)
(* any other upload is answered 400 by that step, which calls the store    *)
(* not once and leaves it unchanged.                                       *)
C13_InvalidUploadRejected ==
    [][\A p \in Procs :
         (pc[p] = "idle" /\ requests' = requests + 1)
           => /\ pc'[p] = "u_schema"
                   => NameGrammar(loc'[p].fileName) /\ Len(loc'[p].rows) > 0
              /\ (pc'[p] = "idle" /\ resp'[p].op = "upload")
                   => /\ resp'[p].status = 400
                      /\ ~NameGrammar(resp'[p].file.name) \/ resp'[p].file.rows = 0
                      /\ UNCHANGED <<store, faults>>]_vars

(* After an upload that went through, an upload of a file with month 00    *)
(* and one data row has been answered 400; the store holds what the first  *)
(* upload left.                                                            *)
C13_Witness ==
    /\ requests = 2
    /\ pc["p1"] = "idle"
    /\ resp["p1"].op = "upload" /\ resp["p1"].status = 400
    /\ resp["p1"].error = "month" /\ resp["p1"].file.rows = 1
    /\ Cardinality(upload_logs) = 1
    /\ Cardinality(DOMAIN tables) = 1

(* An identifier made of letters, digits and underscores with at most one  *)
(* dot.                                                                    *)
IdentifierGrammar(cs) ==
    /\ \A i \in 1..Len(cs) : cs[i] \in WordChars \cup {"."}
    /\ Cardinality({i \in 1..Len(cs) : cs[i] = "."}) <= 1

(* C14: a page read of an identifier that is not made of letters, digits   *)
(* and underscores with at most one dot (so of every identifier with a     *)
(* quote, a semicolon or a blank in it) is answered 400 and has made no    *)
(* call to the store.                                                      *)
C14_BadIdentifierNeverReachesStore ==
    \A p \in Procs :
        (resp[p].op = "page" /\ ~IdentifierGrammar(resp[p].tableName))
          => resp[p].status = 400 /\ resp[p].call = None

(* The page read of the name of the live table followed by a quote has     *)
(* been answered 400 without a call to the store.                          *)
C14_Witness ==
    /\ resp["p1"].op = "page"
    /\ resp["p1"].tableName = LiveName \o <<"'">>
    /\ resp["p1"].status = 400 /\ resp["p1"].call = None
    /\ Len(tables[TableKey(SplitTableName(LiveName))]) > 0

C15_ExpiryIsThirtyDaysOn ==
    [][/\ \A e \in deleted_tables' : e.expires_at = e.deleted_at + 30 * 24 * 60 * 60
       /\ \A e \in deleted_tables' \ deleted_tables : e.deleted_at = now]_vars

(* A softDelete whose trash write was made a day and a second after the    *)
(* start has ended with success, and its TrashEntry is in the trash.       *)
C15_Witness ==
    /\ resp["p1"].op = "delete" /\ resp["p1"].status = 200
    /\ \E e \in deleted_tables :
          /\ e.id = resp["p1"].trashId
          /\ e.deleted_at = DAY + 1
          /\ e.expires_at = 31 * DAY + 1

(* C16: every entry of a trash list carries daysLeft = max(0, ceil of the  *)
(* days from the time of the list to the expiry): it is not negative, it   *)
(* is the least number of whole days that reaches the expiry, and from one *)
(* list to the next it does not grow.                                      *)
C16_DaysLeft ==
    [][\A p \in Procs :
         (resp'[p].op = "list")
           => \A it \in resp'[p].items :
                LET diffTime == it.expires_at - resp'[p].at IN
                /\ it.daysLeft >= 0
                /\ it.daysLeft * DAY >= diffTime
                /\ it.daysLeft > 0 => (it.daysLeft - 1) * DAY < diffTime
                /\ resp[p].op = "list"
                     => \A old \in resp[p].items :
                           old.id = it.id => it.daysLeft <= old.daysLeft]_vars

(* A trash list made after the expiry of a TrashEntry has answered with    *)
(* no day left for it.                                                     *)
C16_Witness ==
    /\ resp["p2"].op = "list" /\ resp["p2"].status = 200
    /\ \E it \in resp["p2"].items :
          /\ it.daysLeft = 0
          /\ it.expires_at < resp["p2"].at

(* C17: a purge answered with success has removed the TrashEntry of its id *)
(* and nothing else; a purge of an id that is not in the trash is answered *)
(* with an error; every purge leaves the live tables, the namespaces, the  *)
(* UploadRecords and the other TrashEntries as they were.                  *)
C17_PurgeRemovesOnlyItsEntry ==
    [][\A p \in Procs :
         (Turn(p) /\ requests' = requests + 1 /\ pc'[p] = "idle"
            /\ resp'[p].op = "purge")
           => LET mine == {e \in deleted_tables : e.id = resp'[p].id} IN
              /\ UNCHANGED <<schemas, tables, upload_logs, nextLogId, nextTrashId>>
              /\ resp'[p].status = 200
                   => mine # {} /\ deleted_tables' = deleted_tables \ mine
              /\ resp'[p].status # 200 => deleted_tables' = deleted_tables
              /\ mine = {} => resp'[p].status \in {400, 500}]_vars

(* A purge has been answered with success; its TrashEntry is gone and      *)
(* another TrashEntry of the same table name is still in the trash.        *)
C17_Witness ==
    \E p \in Procs :
        /\ resp[p].op = "purge" /\ resp[p].status = 200
        /\ \A e \in deleted_tables : e.id # resp[p].id
        /\ \E e \in deleted_tables : e.id = resp[p].id + 1

(* C18: every insert statement of an upload that goes through appends the  *)
(* next rows of the file in their order, 100 of them unless fewer are      *)
(* left, in which case it is the last statement and appends what is left;  *)
(* the statements of a file of n rows are ceil(n / 100).                   *)
C18_BatchesOfHundred ==
    [][\A p \in Procs :
         (pc[p] = "u_insert" /\ pc'[p] \in {"u_insert", "u_log"} /\ loc'[p] # loc[p])
           => LET k == <<loc[p].schema, loc[p].table>>
                  rows == loc[p].rows
                  n == Len(rows)
                  done == loc[p].i
                  size == IF n - done >= 100 THEN 100 ELSE n - done
                  statements == loc'[p].i \div 100
              IN /\ done % 100 = 0 /\ loc'[p].i = done + 100
                 /\ size >= 1
                 /\ Len(tables'[k]) = Len(tables[k]) + size
                 /\ \A j \in 1..Len(tables[k]) : tables'[k][j] = tables[k][j]
                 /\ \A j \in 1..size : tables'[k][Len(tables[k]) + j] = rows[done + j]
                 /\ pc'[p] = "u_insert" => size = 100 /\ n > done + 100
                 /\ pc'[p] = "u_log"
                      => (statements - 1) * 100 < n /\ n <= statements * 100]_vars

(* The three insert statements of a file of 250 rows have gone through:    *)
(* 100, 100 and 50 rows; the table holds the 250 rows in their order.      *)
C18_Witness ==
    \E p \in Procs :
        /\ pc[p] = "u_log"
        /\ Len(loc[p].rows) = 250
        /\ loc[p].i = 3 * BATCH_SIZE
        /\ loc[p].insertedCount = 250
        /\ tables[<<loc[p].schema, loc[p].table>>] = loc[p].rows

(* Lines of a CSV text that are not blank, and the fields of a line: a     *)
(* line ends at a line break outside of quotes, a field at a comma outside *)
(* of quotes.                                                              *)
FieldCount(line) == Len(parseCSVRow(line))

(* C20: decoding a CSV text of a header line with M fields and N data      *)
(* lines gives N row mappings, each with exactly M keys.                   *)
C20_RowsHaveAllColumns ==
    \A p \in Procs :
        resp[p].op = "decode"
          => LET lines == parseCSVLines(resp[p].csv)
                 M == FieldCount(lines[1])
                 N == Len(lines) - 1
             IN Len(lines) >= 2
                  => /\ Len(resp[p].rows) = N
                     /\ \A i \in 1..N : Cardinality(DOMAIN resp[p].rows[i]) = M

(* C21: for every tenant name, whatever characters it holds, the namespace *)
(* id the name resolver derives is a non-empty string of lower-case        *)
(* letters and digits whose first character is not a digit (so it holds no *)
(* quote, semicolon, dot or whitespace).                                   *)
C21_NamespaceIdIsPlain ==
    \A p \in Procs :
        resp[p].op = "schema" =>
            LET id == resp[p].schemaName
            IN /\ id # <<>>
               /\ \A i \in 1..Len(id) : IsAlnum(id[i])
               /\ ~IsDigit(id[1])

(* A name of a digit, a quote and a Hangul syllable resolved to "cmo". *)
C21_Witness ==
    \E p \in Procs :
        /\ resp[p].op = "schema"
        /\ resp[p].companyName = <<"1", "'", "U+BAA8">>
        /\ resp[p].schemaName = <<"c", "m", "o">>

(* C24: the namespace id keeps every character of the stripped name s:     *)
(* "company" when s is empty, the letter c followed by the whole of s when *)
(* s starts with a digit, and s itself otherwise.                          *)
C24_KeepsEveryCharacter ==
    \A p \in Procs :
        resp[p].op = "schema" =>
            LET s == StrippedName(resp[p].companyName)
                id == resp[p].schemaName
            IN /\ s = <<>> => id = DEFAULT_SCHEMA
               /\ (s # <<>> /\ IsDigit(s[1])) => id = <<"c">> \o s
               /\ (s # <<>> /\ ~IsDigit(s[1])) => id = s

(* The text t is the text cs without its leading and trailing white space. *)
Trimmed(cs, t) ==
    \/ t = <<>> /\ \A k \in 1..Len(cs) : IsSpace(cs[k])
    \/ \E i \in 1..Len(cs), j \in 1..Len(cs) :
          /\ i <= j /\ t = SubSeq(cs, i, j)
          /\ ~IsSpace(cs[i]) /\ ~IsSpace(cs[j])
          /\ \A k \in 1..Len(cs) : (k < i \/ k > j) => IsSpace(cs[k])

(* The file name is a non-empty tenant name, six digits with month 01..12  *)
(* and day 01..31, and ".csv".                                             *)
CompanyDateCsv(cs) ==
    LET L == Len(cs) IN
    /\ L >= 11
    /\ SubSeq(cs, L - 3, L) = <<".", "c", "s", "v">>
    /\ SubSeq(cs, L - 9, L - 8) \in TwoDigits(0, 99)
    /\ SubSeq(cs, L - 7, L - 6) \in TwoDigits(1, 12)
    /\ SubSeq(cs, L - 5, L - 4) \in TwoDigits(1, 31)

CompanyOf(cs) == SubSeq(cs, 1, Len(cs) - 10)

DateOf(cs) == SubSeq(cs, Len(cs) - 9, Len(cs) - 4)

(* C22: for a file name company + YYMMDD + ".csv" with a non-empty company *)
(* and a month and day in range, the file name is taken as valid with      *)
(* companyName exactly the company and fileDate exactly the six digits.    *)
C22_NameParsedExactly ==
    [][\A p \in Procs :
         (pc[p] = "u_file" /\ pc'[p] # "u_file" /\ CompanyDateCsv(loc[p].fileName))
           => /\ pc'[p] = "u_name"
              /\ loc'[p].companyName = CompanyOf(loc[p].fileName)
              /\ loc'[p].fileDate = DateOf(loc[p].fileName)]_vars

(* C22, amended: such a file name is taken as valid exactly when its       *)
(* company holds a character that is not white space; companyName is then  *)
(* the company without its leading and trailing white space, and fileDate  *)
(* the six digits.  A company of white space only is answered 400.         *)
C22_NameParsedTrimmed ==
    [][\A p \in Procs :
         (pc[p] = "u_file" /\ pc'[p] # "u_file" /\ CompanyDateCsv(loc[p].fileName))
           => LET company == CompanyOf(loc[p].fileName)
              IN IF \A k \in 1..Len(company) : IsSpace(company[k])
                 THEN pc'[p] = "idle" /\ resp'[p].status = 400
                 ELSE /\ pc'[p] = "u_name"
                      /\ Trimmed(company, loc'[p].companyName)
                      /\ loc'[p].companyName # <<>>
                      /\ loc'[p].fileDate = DateOf(loc[p].fileName)]_vars

(* The file " a1250131.csv" has been taken as valid with companyName "a1"  *)
(* and fileDate "250131".                                                  *)
C22_Witness ==
    \E p \in Procs :
        /\ pc[p] = "u_name"
        /\ CompanyOf(loc[p].fileName) = <<" ", "a", "1">>
        /\ loc[p].companyName = <<"a", "1">>
        /\ loc[p].fileDate = <<"2", "5", "0", "1", "3", "1">>

(* C23: when two uploads to the same table identifier ran at the same time *)
(* and both reported success, with no call of either failing for a reason  *)
(* outside the store, the live table holds exactly the rows of one of the  *)
(* two uploads.                                                            *)
C23_LastWriteWins ==
    (/\ AllIdle /\ requests = 2 /\ faults = 0
     /\ \A p \in Procs : resp[p].op = "upload" /\ resp[p].status = 200
     /\ resp["p1"].tableName = resp["p2"].tableName)
      => /\ TableKey(resp["p1"].tableName) \in DOMAIN tables
         /\ \E p \in Procs :
              tables[TableKey(resp["p1"].tableName)] = FileRows(p, resp[p].rowCount)

(* C25: restore takes the columns of the table from the keys of the first  *)
(* snapshot row only: "id" is the surrogate primary key, a key whose value *)
(* in that row is a number is NUMERIC, any other key TEXT; and the insert  *)
(* of every snapshot row names exactly those keys except "id" and writes   *)
(* for each the row's value, NULL when the row lacks the key.              *)
C25_ColumnsFromFirstRow ==
    \A p \in Procs :
        resp[p].op = "restore_sql" =>
            LET rows == resp[p].rows
                keys == ObjectKeys(rows[1])
                dataKeys == SelectSeq(keys, LAMBDA k : k # "id")
                typeOf(k) == IF k = "id" THEN " SERIAL PRIMARY KEY"
                             ELSE IF RowGet(rows[1], k).type = "number" THEN " NUMERIC"
                             ELSE " TEXT"
                defs == JoinWith([j \in 1..Len(keys) |-> <<"\"", keys[j], "\"", typeOf(keys[j])>>],
                                 <<", ">>)
            IN /\ resp[p].createTableSQL =
                     <<"CREATE TABLE IF NOT EXISTS ", "\"", "a.sales_251206_000000", "\"", " (">>
                     \o defs \o <<");">>
               /\ Len(resp[p].inserts) = Len(rows)
               /\ \A i \in 1..Len(rows) :
                    /\ resp[p].inserts[i].columns = dataKeys
                    /\ Len(resp[p].inserts[i].values) = Len(dataKeys)
                    /\ \A j \in 1..Len(dataKeys) :
                         LET val == RowGet(rows[i], dataKeys[j])
                             written == resp[p].inserts[i].values[j]
                         IN CASE val.type = "undefined" -> written = <<"NULL">>
                              [] val.type = "null" -> written = <<"NULL">>
                              [] val.type = "number" -> written = <<"7">>
                              [] OTHER -> /\ Len(written) >= 2
                                          /\ written[1] = "'" /\ written[Len(written)] = "'"

(* A snapshot whose first row has the keys id, a (a number) and b, and     *)
(* whose second row has the keys b and c: the table got the columns id, a  *)
(* NUMERIC and b TEXT, and the second insert wrote NULL for a.             *)
C25_Witness ==
    \E p \in Procs :
        /\ resp[p].op = "restore_sql"
        /\ Len(resp[p].rows) = 2
        /\ ObjectKeys(resp[p].rows[1]) = <<"id", "a", "b">>
        /\ ObjectKeys(resp[p].rows[2]) = <<"b", "c">>
        /\ RowGet(resp[p].rows[1], "a").type = "number"
        /\ resp[p].inserts[2].columns = <<"a", "b">>
        /\ resp[p].inserts[2].values[1] = <<"NULL">>

(* What a reader of SQL makes of a statement: the decoded string literals  *)
(* in order, the text outside them with a mark where each literal stood,   *)
(* and whether the text ends inside a literal or a quoted name.            *)
RECURSIVE SqlScan(_, _, _, _)
SqlScan(text, mode, cur, acc) ==
    IF text = <<>> THEN [strings |-> acc.strings, rest |-> acc.rest, mode |-> mode]
    ELSE LET c == Head(text) IN
         CASE mode = "sql" /\ c = "'" -> SqlScan(Tail(text), "string", <<>>, acc)
           [] mode = "sql" /\ c = "\"" ->
                SqlScan(Tail(text), "name", <<>>, [acc EXCEPT !.rest = @ \o <<c>>])
           [] mode = "sql" /\ c \notin {"'", "\""} ->
                SqlScan(Tail(text), "sql", <<>>, [acc EXCEPT !.rest = @ \o <<c>>])
           [] mode = "name" ->
                SqlScan(Tail(text), IF c = "\"" THEN "sql" ELSE "name", <<>>,
                        [acc EXCEPT !.rest = @ \o <<c>>])
           [] mode = "string" /\ c # "'" -> SqlScan(Tail(text), "string", cur \o <<c>>, acc)
           [] mode = "string" /\ c = "'" /\ Len(text) >= 2 /\ text[2] = "'" ->
                SqlScan(Tail(Tail(text)), "string", cur \o <<"'">>, acc)
           [] OTHER ->
                SqlScan(Tail(text), "sql", <<>>,
                        [strings |-> acc.strings \o <<cur>>, rest |-> acc.rest \o <<"?">>])

ReadSql(text) == SqlScan(text, "sql", <<>>, [strings |-> <<>>, rest |-> <<>>])

(* The texts of the values of the given keys of a row that are written as  *)
(* string literals, in order.                                              *)
RECURSIVE TextsOf(_, _, _)
TextsOf(row, keys, nullAsEmpty) ==
    IF keys = <<>> THEN <<>>
    ELSE LET val == RowGet(row, Head(keys))
         IN (CASE val.type = "string" -> <<val.text>>
               [] val.type = "number" -> <<>>
               [] OTHER -> IF nullAsEmpty THEN <<<<>>>> ELSE <<>>)
            \o TextsOf(row, Tail(keys), nullAsEmpty)

RECURSIVE Flatten(_)
Flatten(ss) == IF ss = <<>> THEN <<>> ELSE Head(ss) \o Flatten(Tail(ss))

(* C26: in every insert statement built for the store, by the upload for a *)
(* batch and by restore for a snapshot row, the string literals a reader   *)
(* of SQL finds are exactly the text values of the rows, in order, each    *)
(* literal is closed, and the text outside the literals is the statement   *)
(* with a mark in the place of each literal, whatever the values hold.     *)
C26_ValuesStayInTheirLiterals ==
    \A p \in Procs :
        /\ resp[p].op = "insert_sql" =>
             LET read == ReadSql(resp[p].sql)
                 rows == resp[p].rows
             IN /\ read.mode = "sql"
                /\ read.strings =
                     Flatten([i \in 1..Len(rows) |-> TextsOf(rows[i], <<"a", "b">>, TRUE)])
                /\ read.rest =
                     <<"INSERT INTO ", "a", ".", "\"", "sales_251206_000000", "\"",
                       " (", "\"", "a", "\"", ", ", "\"", "b", "\"", ") VALUES ">>
                     \o JoinWith([i \in 1..Len(rows) |-> <<"(", "?", ", ", "?", ")">>],
                                 <<", ">>)
                     \o <<";">>
        /\ resp[p].op = "restore_sql" =>
             \A i \in 1..Len(resp[p].rows) :
                LET read == ReadSql(resp[p].inserts[i].sql)
                    columns == resp[p].inserts[i].columns
                IN /\ read.mode = "sql"
                   /\ read.strings = TextsOf(resp[p].rows[i], columns, FALSE)
                   /\ read.rest =
                        <<"INSERT INTO ", "\"", "a.sales_251206_000000", "\"", " (">>
                        \o JoinWith([j \in 1..Len(columns) |-> <<"\"", columns[j], "\"">>],
                                    <<", ">>)
                        \o <<") VALUES (">>
                        \o JoinWith([j \in 1..Len(columns) |->
                                       LET val == RowGet(resp[p].rows[i], columns[j])
                                       IN CASE val.type = "string" -> <<"?">>
                                            [] val.type = "number" -> <<"7">>
                                            [] OTHER -> <<"NULL">>],
                                    <<", ">>)
                        \o <<");">>

(* An upload batch whose first value is a'  and whose second value is a    *)
(* lone quote has been written as 'a''' and ''''.                          *)
C26_Witness ==
    \E p \in Procs :
        /\ resp[p].op = "insert_sql"
        /\ RowGet(resp[p].rows[1], "a").text = <<"a", "'">>
        /\ RowGet(resp[p].rows[1], "b").text = <<"'">>
        /\ SubSeq(resp[p].sql, 17, 27) = <<"'", "a", "'", "'", "'", ", ", "'", "'", "'", "'", ")">>

(* C27: whenever no request is in flight, and no call has failed for a     *)
(* reason outside the store, the table identifier of every UploadRecord    *)
(* names a live table of the namespace the identifier is qualified with.   *)
C27_RecordsNameLiveTables ==
    (AllIdle /\ faults = 0)
      => \A r \in upload_logs : TableKey(r.table_name) \in DOMAIN tables

(* C28: two softDelete requests for the same table that are in flight at   *)
(* the same time have written at most one TrashEntry between them; here    *)
(* for the entries that carry the rows of the table, from which its data   *)
(* can be restored.                                                        *)
C28_OneTrashEntryPerTable ==
    \A p, q \in Procs :
        (/\ p # q
         /\ {pc[p], pc[q]} \subseteq {"d_drop", "d_undo", "d_unlog", "d_empty", "d_schema"}
         /\ loc[p].tableName = loc[q].tableName)
          => ~(/\ loc[p].trashOk /\ loc[p].originalData # None
               /\ loc[q].trashOk /\ loc[q].originalData # None)

(* The store of InitRestore is one the requests of SpecSeq lead to. *)
TrashedStoreReached ==
    /\ AllIdle
    /\ schemas = {"public"} /\ tables = <<>> /\ upload_logs = {}
    /\ deleted_tables =
          {TrashDefaults([id |-> 1, table_name |-> <<"a", "sales_251206_000000">>,
                          row_count |-> 2,
                          original_data |-> Some(FileRows("p1", 2))], 0)}
    /\ nextLogId = 2 /\ nextTrashId = 2

(* C29: restore requests for the same TrashEntry, none of whose calls      *)
(* failed for a reason outside the store, add at most one UploadRecord     *)
(* and put each snapshot row into the restored table at most once.         *)
C29_RestoredOnce ==
    faults = 0
      => /\ Cardinality(upload_logs) <= 1
         /\ \A k \in DOMAIN tables :
              \A i, j \in 1..Len(tables[k]) : tables[k][i] = tables[k][j] => i = j

(* C30: every read the table page handler has sent to the store carries an *)
(* offset of at least 0 and a limit of at least 1, whatever page and       *)
(* pageSize the request carried.                                           *)
C30_ReadWindowInRange ==
    \A p \in Procs :
        (resp[p].op = "page" /\ resp[p].call # None)
          => /\ The(resp[p].call).p_offset >= 0
             /\ The(resp[p].call).p_limit >= 1

====
